---- MODULE Spec2Model ----
(***************************************************************************)
(* A model of the ground-domain layer of sympy.polys (algebratools.py) and *)
(* of the places of the polynomial facade (polytools.py) that use it.      *)
(*                                                                         *)
(* The operations of this layer are functions of their arguments.  The     *)
(* state of the model is the call that was made last: its name, its        *)
(* arguments and what it returned or raised.  Every action draws the       *)
(* arguments of one call from the bounded sets below and applies the       *)
(* operation as the source computes it.  A behaviour is one expression of  *)
(* a caller: a call from the idle state, and for K0.unify(K1).unify(K2)    *)
(* a second call on what the first returned.                               *)
(***************************************************************************)
EXTENDS Integers, Sequences, FiniteSets, TLC

VARIABLES call, args, result, _exact_roots_cache, threads

vars == <<call, args, result, _exact_roots_cache, threads>>

\* the state that the threads of the process share
shared == <<_exact_roots_cache, threads>>

(***************************************************************************)
(* Bounds of the model.                                                    *)
(***************************************************************************)
\* generator symbols are 1..NumGens (1 is x, 2 is y, ...), ordered as SymPy
\* orders symbols
NumGens == 2
\* numerators of the sampled domain elements are -MaxNum..MaxNum
MaxNum == 2
\* denominators of the sampled rationals are 1..MaxDen
MaxDen == 3
\* the arguments of limit_denom are n in 1..LimNum, d in 1..LimDen and
\* max_denom in 1..LimMax
LimNum == 5
LimDen == 6
LimMax == 4
\* the threads of the process are 1..NumThreads
NumThreads == 2

(***************************************************************************)
(* Domains.  A domain object is a record: its class (kind), the ground     *)
(* domain below a composite or algebraic domain (dom), the generators of   *)
(* a composite domain (gens) and the extension of an algebraic field       *)
(* (ext, 0 when there is none).                                            *)
(***************************************************************************)
NoDom == [kind |-> "None", ext |-> 0]

Ground(k) == [kind |-> k, ext |-> 0]

Base(k) == [kind |-> k, dom |-> NoDom, gens |-> <<>>, ext |-> 0]

\* a ground domain stored in the dom attribute, as a domain object
Lift(b) == [kind |-> b.kind, dom |-> NoDom, gens |-> <<>>, ext |-> b.ext]

\* GROUND_TYPES = 'python': ZZ and QQ are the Python backed domains
ZZ == Base("ZZ_python")
QQ == Base("QQ_python")
RR == Base("RR_mpmath")
FF == Base("FF_float")
CC == Base("CC_complex")
EX == Base("ExpressionDomain")

\* AlgebraicField(dom, ext): the gens attribute, (ext,), is read by no
\* operation modelled here and is left out
AlgebraicField(e) ==
    [kind |-> "AlgebraicField", dom |-> Ground("QQ_python"), gens |-> <<>>, ext |-> e]

PolynomialRing(d, g) == [kind |-> "PolynomialRing", dom |-> d, gens |-> g, ext |-> 0]

FractionField(d, g) == [kind |-> "FractionField", dom |-> d, gens |-> g, ext |-> 0]

\* K.__class__(dom, *gens) for a composite K
SameClass(K, d, g) == [kind |-> K.kind, dom |-> d, gens |-> g, ext |-> 0]

(***************************************************************************)
(* Class attributes.                                                       *)
(***************************************************************************)
IntegerKinds == {"ZZ_python", "ZZ_sympy", "ZZ_gmpy"}
RationalKinds == {"QQ_python", "QQ_sympy", "QQ_gmpy"}
RealKinds == {"RR_sympy", "RR_mpmath", "FF_float", "CC_complex"}

is_ZZ(K) == K.kind \in IntegerKinds

is_QQ(K) == K.kind \in RationalKinds

is_EX_never(K) == FALSE

is_EX(K) == K.kind = "ExpressionDomain"

is_Exact_FF_exact(K) == K.kind \notin {"RR_sympy", "RR_mpmath", "CC_complex"}

is_Exact(K) == K.kind \notin RealKinds

is_Composite(K) == K.kind \in {"PolynomialRing", "FractionField"}

is_Algebraic(K) == K.kind = "AlgebraicField"

\* the classes below Field
has_Field(K) ==
    K.kind \in RationalKinds \cup {"FractionField", "AlgebraicField", "ExpressionDomain"}

\* the class of the elements of a domain
dtype(K) ==
    CASE K.kind = "ZZ_python" -> "int"
      [] K.kind = "QQ_python" -> "Fraction"
      [] K.kind = "ZZ_sympy" -> "Integer"
      [] K.kind = "QQ_sympy" -> "Rational"
      [] K.kind = "ZZ_gmpy" -> "mpz"
      [] K.kind = "QQ_gmpy" -> "mpq"
      [] K.kind = "RR_sympy" -> "Real"
      [] K.kind = "RR_mpmath" -> "mpf"
      [] K.kind = "FF_float" -> "float"
      [] K.kind = "CC_complex" -> "complex"
      [] K.kind = "AlgebraicField" -> "ANP"
      [] K.kind = "PolynomialRing" -> "DMP"
      [] K.kind = "FractionField" -> "DMF"
      [] K.kind = "ExpressionDomain" -> "Expression"

\* self == other, dispatched on the class of self: composite domains compare
\* the element class and the generators, algebraic fields the element class
\* and the extension, every other domain the element class alone
DomEq(self, other) ==
    IF is_Composite(self)
    THEN dtype(self) = dtype(other) /\ self.gens = other.gens
    ELSE IF is_Algebraic(self)
    THEN dtype(self) = dtype(other) /\ self.ext = other.ext
    ELSE dtype(self) = dtype(other)

(***************************************************************************)
(* Helpers on generator tuples.                                            *)
(***************************************************************************)
\* the element of a set of one element: Only({e : x \in {v}}) is e for the
\* value of v
Only(S) == CHOOSE x \in S : TRUE

SeqSet(s) == {s[i] : i \in 1..Len(s)}

Min(S) == CHOOSE m \in S : \A n \in S : m <= n

RECURSIVE sorted(_)
sorted(S) == IF S = {} THEN <<>> ELSE <<Min(S)>> \o sorted(S \ {Min(S)})

\* the value of an absent gens argument
None == <<0>>

(***************************************************************************)
(* Outcomes of unify: a domain, or an exception with the domains its       *)
(* message names.                                                          *)
(***************************************************************************)
Return(D) == [exc |-> "none", val |-> D, named |-> <<>>]

Raise(e, names) == [exc |-> e, val |-> Base("None"), named |-> names]

\* the branch of unify for two composite domains
unify_composites(K0, K1) ==
    LET gens == IF K0.gens = K1.gens THEN K0.gens
                ELSE sorted(SeqSet(K0.gens \o K1.gens))
    IN  IF has_Field(K0) /\ has_Field(K1)
        THEN IF has_Field(Lift(K0.dom))
             THEN Return(IF K0.gens = K1.gens THEN K0 ELSE SameClass(K0, K0.dom, gens))
             ELSE Return(IF K0.gens = K1.gens THEN K1 ELSE SameClass(K1, K1.dom, gens))
        ELSE IF has_Field(K0)
        THEN IF DomEq(Lift(K0.dom), Lift(K1.dom))
             THEN Return(IF K0.gens = K1.gens THEN K0 ELSE SameClass(K0, K0.dom, gens))
             ELSE Return(EX)
        ELSE IF has_Field(K1)
        THEN IF DomEq(Lift(K0.dom), Lift(K1.dom))
             THEN Return(IF K0.gens = K1.gens THEN K1 ELSE SameClass(K1, K1.dom, gens))
             ELSE Return(EX)
        ELSE IF has_Field(Lift(K0.dom))
             THEN Return(IF K0.gens = K1.gens THEN K0 ELSE SameClass(K0, K0.dom, gens))
             ELSE Return(IF K0.gens = K1.gens THEN K1 ELSE SameClass(K1, K1.dom, gens))

\* the test on the gens argument: it names a generator of a composite operand
excluded(K0, K1, gens) ==
    /\ gens # None
    /\ \/ is_Composite(K0) /\ SeqSet(K0.gens) \cap SeqSet(gens) # {}
       \/ is_Composite(K1) /\ SeqSet(K1.gens) \cap SeqSet(gens) # {}

\* Algebra.unify(K0, K1, gens=None)
unify(K0, K1, gens) ==
    IF excluded(K0, K1, gens)
    THEN Raise("UnificationFailed", <<K0, K1>>)
    ELSE IF gens = None /\ DomEq(K0, K1) THEN Return(K0)
    ELSE IF is_EX(K0) THEN Return(K0)
    ELSE IF is_EX(K1) THEN Return(K1)
    ELSE IF ~is_Exact(K0) THEN Return(K0)
    ELSE IF ~is_Exact(K1) THEN Return(K1)
    ELSE IF is_Composite(K0)
    THEN IF is_Composite(K1) THEN unify_composites(K0, K1)
         ELSE IF is_Algebraic(K1) THEN Raise("UnificationFailed", <<K0, K1>>)
         ELSE IF has_Field(K0)
              THEN IF DomEq(Lift(K0.dom), K1) THEN Return(K0) ELSE Return(EX)
              ELSE IF has_Field(Lift(K0.dom)) THEN Return(K0)
                   ELSE Return(SameClass(K0, Ground(K1.kind), K0.gens))
    ELSE IF is_Algebraic(K0)
    THEN IF is_Composite(K1) THEN Raise("UnificationFailed", <<K0, K1>>)
         ELSE IF is_Algebraic(K1) THEN Raise("NotImplementedError", <<>>)
         ELSE IF is_ZZ(K1) \/ is_QQ(K1) THEN Return(K0)
         ELSE Raise("UnificationFailed", <<K0, K1>>)
    ELSE IF is_Composite(K1)
         THEN IF has_Field(K1)
              THEN IF DomEq(K0, Lift(K1.dom)) THEN Return(K1) ELSE Return(EX)
              ELSE IF has_Field(Lift(K1.dom)) THEN Return(K1)
                   ELSE Return(SameClass(K1, Ground(K0.kind), K1.gens))
         ELSE IF is_Algebraic(K1)
         THEN IF is_ZZ(K0) \/ is_QQ(K0) THEN Return(K1)
              ELSE Raise("UnificationFailed", <<K0, K1>>)
         ELSE IF has_Field(K0) THEN Return(K0) ELSE Return(K1)

(***************************************************************************)
(* Domain elements.  An element is a record of its Python class (type)     *)
(* and of the number p/q it holds, q >= 1, in lowest terms.  A raised      *)
(* exception is a record whose type is the exception class; the None       *)
(* that a from_ method returns when it cannot convert is NoneVal.          *)
(***************************************************************************)
E(t, p, q) == [type |-> t, p |-> p, q |-> q]

NoneVal == E("NoneType", 0, 1)

Raised(e) == E(e, 0, 1)

Exceptions ==
    {"CoercionFailed", "AttributeError", "TypeError", "ZeroDivisionError",
     "ExactQuotientFailed", "NotInvertible", "NotImplementedError"}

\* the absent K0 argument of convert
NoSource == "None"

\* Integer(p) and Rational(p, q) of SymPy: a Rational with denominator 1 is
\* an instance of Integer, and Integer is a subclass of Rational
sympy_int(p) == E("Integer", p, 1)

sympy_rat(p, q) == IF q = 1 THEN E("Integer", p, 1) ELSE E("Rational", p, q)

is_Integer(a) == a.type = "Integer"

is_Rational(a) == a.type \in {"Integer", "Rational"}

is_Real(a) == a.type = "Real"

isinstance_Basic(a) == a.type \in {"Integer", "Rational", "Real", "Symbol"}

(***************************************************************************)
(* RealAlgebra.as_integer_ratio and RealAlgebra.limit_denom.               *)
(***************************************************************************)
max_denom_default == 1000000

\* the while loop of limit_denom, from the values its variables hold at the
\* head of an iteration; n // d with d = 0 raises ZeroDivisionError
RECURSIVE limit_denom_loop(_, _, _, _, _, _, _, _, _)
limit_denom_loop(n0, d0, p0, q0, p1, q1, n, d, max_denom) ==
    IF d = 0 THEN <<"ZeroDivisionError", 0, 0>>
    ELSE LET a == n \div d
             q2 == q0 + a * q1
         IN  IF q2 > max_denom
             THEN LET k == (max_denom - q0) \div q1
                      P1 == p0 + k * p1
                      Q1 == q0 + k * q1
                      absdiff(x, y) == IF x >= y THEN x - y ELSE y - x
                      \* |p1/q1 - n0/d0| <= |P1/Q1 - n0/d0|
                      closer == absdiff(p1 * d0, n0 * q1) * Q1
                                    <= absdiff(P1 * d0, n0 * Q1) * q1
                  IN  IF closer THEN <<"ok", p1, q1>> ELSE <<"ok", P1, Q1>>
             ELSE limit_denom_loop(n0, d0, p1, q1, p0 + a * p1, q2, d, n - a * d, max_denom)

limit_denom(n, d, max_denom) ==
    IF d <= max_denom THEN <<"ok", n, d>>
    ELSE limit_denom_loop(n, d, 0, 1, 1, 0, n, d, max_denom)

\* as_integer_ratio(a) of the float p/q: frexp and the doubling loop leave
\* numer = p and denom = q (q a power of two), handed to limit_denom
as_integer_ratio(a) == limit_denom(a.p, a.q, max_denom_default)

(***************************************************************************)
(* The from_ methods, class by class.  K0 is the class name of the source  *)
(* domain; a is an element of the source domain.                           *)
(***************************************************************************)
FromMethods ==
    {"ZZ_python", "QQ_python", "ZZ_sympy", "QQ_sympy", "ZZ_gmpy", "QQ_gmpy",
     "RR_sympy", "RR_mpmath", "AlgebraicField", "PolynomialRing",
     "FractionField", "ExpressionDomain"}

\* hasattr(K1, "from_" + K0.__class__.__name__)
has_from(K1, K0) ==
    \/ K0 \in FromMethods
    \/ K1 = "CC_complex" /\ K0 = "FF_float"

ZZ_python_from_QQ_python_floor(a) == E("int", a.p \div a.q, 1)

ZZ_python_from_QQ_python(a) == IF a.q = 1 THEN E("int", a.p, 1) ELSE NoneVal

\* the from_ methods of the three integer rings build the element with the
\* ring's own constructor (python_int, sympy_int, gmpy_int)
IntegerRing_from(t, a, K0) ==
    CASE K0 \in IntegerKinds -> E(t, a.p, 1)
      [] K0 \in RationalKinds -> IF a.q = 1 THEN E(t, a.p, 1) ELSE NoneVal
      [] K0 \in {"RR_sympy", "RR_mpmath"} ->
            LET r == as_integer_ratio(a)
            IN  IF r[1] # "ok" THEN Raised(r[1])
                ELSE IF r[3] = 1 THEN E(t, r[2], 1) ELSE NoneVal
      [] OTHER -> NoneVal

ZZ_python_from(a, K0) ==
    IF K0 = "QQ_python" THEN ZZ_python_from_QQ_python(a)
    ELSE IntegerRing_from("int", a, K0)

ZZ_sympy_from(a, K0) == IntegerRing_from("Integer", a, K0)

ZZ_gmpy_from(a, K0) == IntegerRing_from("mpz", a, K0)

\* the from_ methods of the rational fields: python_rat, gmpy_rat
RationalField_from(t, a, K0) ==
    CASE K0 \in IntegerKinds \cup RationalKinds -> E(t, a.p, a.q)
      [] K0 \in {"RR_sympy", "RR_mpmath"} ->
            LET r == as_integer_ratio(a)
            IN  IF r[1] # "ok" THEN Raised(r[1]) ELSE E(t, r[2], r[3])
      [] OTHER -> NoneVal

QQ_python_from(a, K0) == RationalField_from("Fraction", a, K0)

QQ_gmpy_from(a, K0) == RationalField_from("mpq", a, K0)

QQ_sympy_from(a, K0) ==
    CASE K0 \in IntegerKinds \cup RationalKinds -> sympy_rat(a.p, a.q)
      [] K0 \in {"RR_sympy", "RR_mpmath"} ->
            LET r == as_integer_ratio(a)
            IN  IF r[1] # "ok" THEN Raised(r[1]) ELSE sympy_rat(r[2], r[3])
      [] OTHER -> NoneVal

\* RR_sympy and RR_mpmath: sympy_mpf(...) and mpmath_mpf(...)
RR_from(t, a, K0) ==
    IF K0 \in IntegerKinds \cup RationalKinds \cup {"RR_sympy", "RR_mpmath"}
    THEN E(t, a.p, a.q) ELSE NoneVal

RR_sympy_from(a, K0) == RR_from("Real", a, K0)

RR_mpmath_from(a, K0) == RR_from("mpf", a, K0)

\* FF_float and CC_complex: from_QQ_gmpy takes int(a.denom) of the bound
\* method a.denom, a TypeError
FF_float_from(a, K0) ==
    CASE K0 = "QQ_gmpy" -> Raised("TypeError")
      [] K0 \in IntegerKinds \cup {"QQ_python", "QQ_sympy", "RR_sympy", "RR_mpmath"} ->
            E("float", a.p, a.q)
      [] OTHER -> NoneVal

CC_complex_from(a, K0) ==
    CASE K0 = "QQ_gmpy" -> Raised("TypeError")
      [] K0 \in IntegerKinds \cup {"QQ_python", "QQ_sympy", "RR_sympy", "RR_mpmath", "FF_float"} ->
            E("complex", a.p, a.q)
      [] OTHER -> NoneVal

\* ExpressionDomain: K1(K0.to_sympy(a))
ExpressionDomain_from(a, K0) ==
    IF K0 \in IntegerKinds \cup RationalKinds \cup {"RR_sympy", "RR_mpmath"}
    THEN E("Expression", a.p, a.q) ELSE NoneVal

\* getattr(K1, "from_" + K0.__class__.__name__)(a, K0)
from_(K1, a, K0) ==
    CASE K1 = "ZZ_python" -> ZZ_python_from(a, K0)
      [] K1 = "ZZ_sympy" -> ZZ_sympy_from(a, K0)
      [] K1 = "ZZ_gmpy" -> ZZ_gmpy_from(a, K0)
      [] K1 = "QQ_python" -> QQ_python_from(a, K0)
      [] K1 = "QQ_sympy" -> QQ_sympy_from(a, K0)
      [] K1 = "QQ_gmpy" -> QQ_gmpy_from(a, K0)
      [] K1 = "RR_sympy" -> RR_sympy_from(a, K0)
      [] K1 = "RR_mpmath" -> RR_mpmath_from(a, K0)
      [] K1 = "FF_float" -> FF_float_from(a, K0)
      [] K1 = "CC_complex" -> CC_complex_from(a, K0)
      [] K1 = "ExpressionDomain" -> ExpressionDomain_from(a, K0)

(***************************************************************************)
(* The from_sympy methods.  a is a SymPy object: an Integer, a Rational,   *)
(* a Real or a Symbol.                                                     *)
(***************************************************************************)
\* the integer rings: an Integer is rebuilt with the ring's constructor; a
\* Real with an integral value is returned as sympy_int(int(a)) by
\* ZZ_python and ZZ_sympy and as gmpy_int(int(a)) by ZZ_gmpy
IntegerRing_from_sympy(t, tReal, a) ==
    IF is_Integer(a) THEN E(t, a.p, 1)
    ELSE IF is_Real(a) /\ a.q = 1 THEN E(tReal, a.p, 1)
    ELSE Raised("CoercionFailed")

ZZ_python_from_sympy(a) == IntegerRing_from_sympy("int", "Integer", a)

ZZ_sympy_from_sympy(a) == IntegerRing_from_sympy("Integer", "Integer", a)

ZZ_gmpy_from_sympy(a) == IntegerRing_from_sympy("mpz", "mpz", a)

RationalField_from_sympy(t, a) ==
    IF is_Rational(a) /\ a.q # 0 THEN E(t, a.p, a.q)
    ELSE IF is_Real(a)
    THEN LET r == as_integer_ratio(a)
         IN  IF r[1] # "ok" THEN Raised(r[1]) ELSE E(t, r[2], r[3])
    ELSE Raised("CoercionFailed")

QQ_python_from_sympy(a) == RationalField_from_sympy("Fraction", a)

QQ_gmpy_from_sympy(a) == RationalField_from_sympy("mpq", a)

QQ_sympy_from_sympy(a) ==
    IF is_Rational(a) /\ a.q # 0 THEN a
    ELSE IF is_Real(a)
    THEN LET r == as_integer_ratio(a)
         IN  IF r[1] # "ok" THEN Raised(r[1]) ELSE sympy_rat(r[2], r[3])
    ELSE Raised("CoercionFailed")

\* b = a.evalf() is a Real for a number and a itself for a Symbol; the
\* real domains return b, mpmath_mpf(b) or float(b); CC_complex returns
\* float(b) as well
RealAlgebra_from_sympy(t, a) ==
    IF a.type \in {"Integer", "Rational", "Real"} THEN E(t, a.p, a.q)
    ELSE Raised("CoercionFailed")

RR_sympy_from_sympy(a) == RealAlgebra_from_sympy("Real", a)

RR_mpmath_from_sympy(a) == RealAlgebra_from_sympy("mpf", a)

FF_float_from_sympy(a) == RealAlgebra_from_sympy("float", a)

CC_complex_from_sympy(a) == RealAlgebra_from_sympy("float", a)

ExpressionDomain_from_sympy(a) == E("Expression", a.p, a.q)

from_sympy(K1, a) ==
    CASE K1 = "ZZ_python" -> ZZ_python_from_sympy(a)
      [] K1 = "ZZ_sympy" -> ZZ_sympy_from_sympy(a)
      [] K1 = "ZZ_gmpy" -> ZZ_gmpy_from_sympy(a)
      [] K1 = "QQ_python" -> QQ_python_from_sympy(a)
      [] K1 = "QQ_sympy" -> QQ_sympy_from_sympy(a)
      [] K1 = "QQ_gmpy" -> QQ_gmpy_from_sympy(a)
      [] K1 = "RR_sympy" -> RR_sympy_from_sympy(a)
      [] K1 = "RR_mpmath" -> RR_mpmath_from_sympy(a)
      [] K1 = "FF_float" -> FF_float_from_sympy(a)
      [] K1 = "CC_complex" -> CC_complex_from_sympy(a)
      [] K1 = "ExpressionDomain" -> ExpressionDomain_from_sympy(a)

(***************************************************************************)
(* Algebra.convert.                                                        *)
(***************************************************************************)
\* the classes whose instances are elements of the domain: dtype and its
\* subclasses (Integer is a subclass of Rational)
Native(K1) ==
    IF K1 = "QQ_sympy" THEN {"Rational", "Integer"} ELSE {dtype(Base(K1))}

\* type(a) is type(self.one)
of_type(K1, a) == a.type = dtype(Base(K1))

\* K1(a) for a Python int a: self.dtype(a)
Algebra_call(K1, a) ==
    IF K1 = "QQ_sympy" THEN sympy_rat(a.p, 1) ELSE E(dtype(Base(K1)), a.p, 1)

convert(K1, a, K0) ==
    IF K0 # NoSource
    THEN IF ~has_from(K1, K0) THEN Raised("AttributeError")
         ELSE LET r == from_(K1, a, K0)
              IN  IF r # NoneVal THEN r ELSE Raised("CoercionFailed")
    ELSE IF of_type(K1, a) THEN a
         ELSE IF a.type = "int" THEN Algebra_call(K1, a)
         ELSE IF isinstance_Basic(a)
              THEN LET r == from_sympy(K1, a)
                   IN  IF r.type \in {"TypeError", "ValueError"}
                       THEN Raised("CoercionFailed") ELSE r
              ELSE Raised("CoercionFailed")

(***************************************************************************)
(* The sampled arguments.                                                  *)
(***************************************************************************)
RECURSIVE gcd(_, _)
gcd(m, n) == IF n = 0 THEN m ELSE gcd(n, m % n)

Abs(n) == IF n < 0 THEN -n ELSE n

\* p/q in lowest terms
Lowest == {pq \in (-MaxNum..MaxNum) \X (1..MaxDen) : gcd(Abs(pq[1]), pq[2]) = 1}

\* the floats among them: the denominator is a power of two
Dyadic == {pq \in Lowest : \E k \in 0..MaxDen : pq[2] = 2^k}

\* the elements of the domain of class K0
Elements(K0) ==
    CASE K0 \in IntegerKinds -> {E(dtype(Base(K0)), p, 1) : p \in -MaxNum..MaxNum}
      [] K0 = "QQ_sympy" -> {sympy_rat(pq[1], pq[2]) : pq \in Lowest}
      [] K0 \in RationalKinds \ {"QQ_sympy"} ->
            {E(dtype(Base(K0)), pq[1], pq[2]) : pq \in Lowest}
      [] K0 \in RealKinds -> {E(dtype(Base(K0)), pq[1], pq[2]) : pq \in Dyadic}
      [] K0 = "ExpressionDomain" -> {E("Expression", pq[1], pq[2]) : pq \in Lowest}

\* what convert is given without a source domain: Python ints and SymPy
\* objects (sympify returns a SymPy object unchanged)
Unsourced ==
    {E("int", p, 1) : p \in -MaxNum..MaxNum}
        \cup {sympy_rat(pq[1], pq[2]) : pq \in Lowest}
        \cup {E("Real", pq[1], pq[2]) : pq \in Dyadic}
        \cup {E("Symbol", 0, 1)}

ConvertTargets == IntegerKinds \cup RationalKinds \cup RealKinds \cup {"ExpressionDomain"}

ConvertSources == IntegerKinds \cup RationalKinds \cup RealKinds

\* generator tuples: one symbol, or two distinct symbols in either order
GenTuples ==
    {<<g>> : g \in 1..NumGens}
        \cup {gh \in (1..NumGens) \X (1..NumGens) : gh[1] # gh[2]}

\* the extensions of the sampled algebraic fields: sqrt(2) and sqrt(3)
Exts == {1, 2}

\* the ground domains of the sampled composite domains: ZZ, QQ and RR
GroundKinds == {"ZZ_python", "QQ_python", "RR_mpmath"}

Composites ==
    {PolynomialRing(Ground(k), g) : k \in GroundKinds, g \in GenTuples}
        \cup {FractionField(Ground(k), g) : k \in GroundKinds, g \in GenTuples}

Domains == {ZZ, QQ, RR, FF, CC, EX} \cup {AlgebraicField(e) : e \in Exts} \cup Composites

Hints == {None} \cup GenTuples

\* a polynomial of the facade: the ground domain of its DMP representation
\* and its generators, which the ground domain does not contain
Polys ==
    {[dom |-> D, gens |-> g] : D \in Domains, g \in GenTuples}
        \ {P \in [dom : Domains, gens : GenTuples] :
             is_Composite(P.dom) /\ SeqSet(P.dom.gens) \cap SeqSet(P.gens) # {}}

\* the orderings of a set of generators
Orderings(S) == {t \in [1..Cardinality(S) -> S] : SeqSet(t) = S}

(***************************************************************************)
(* Poly.unify and Poly.add for two polynomials with DMP representations.   *)
(* gens is what _unify_gens(f.gens, g.gens) returned.  The coefficients of *)
(* the operands are not modelled: the outcome is the exception raised by   *)
(* the unification of the ground domains, or the domain and generators of  *)
(* the unified operands.                                                   *)
(***************************************************************************)
Poly_unify(f, g, gens) ==
    LET u == unify(f.dom, g.dom, gens)
    IN  IF u.exc # "none"
        THEN [exc |-> u.exc, dom |-> u.val, gens |-> <<>>]
        ELSE [exc |-> "none", dom |-> u.val, gens |-> gens]

\* _, per, F, G = f.unify(g); per(F.add(G))
Poly_add(f, g, gens) == Poly_unify(f, g, gens)

(***************************************************************************)
(* Arithmetic of the ground domains: exquo, quo, invert and gcd.  The      *)
(* elements of the integer rings hold p with q = 1.                        *)
(***************************************************************************)
\* a // b and a % b of Python for b # 0: the quotient is rounded down and
\* the remainder has the sign of b
floordiv(a, b) == IF b > 0 THEN a \div b ELSE (-a) \div (-b)

pymod(a, b) == a - b * floordiv(a, b)

Sign(n) == IF n < 0 THEN -1 ELSE 1

\* p/q for q # 0, with a positive denominator and in lowest terms
Normal(t, p, q) ==
    LET g == gcd(Abs(p), Abs(q))
    IN  E(t, Sign(q) * (p \div g), Abs(q) \div g)

\* Ring.exquo: a // b
Ring_exquo(t, a, b) ==
    IF b.p = 0 THEN Raised("ZeroDivisionError") ELSE E(t, floordiv(a.p, b.p), 1)

\* Ring.quo: a // b when a % b is zero
Ring_quo(t, a, b) ==
    IF b.p = 0 THEN Raised("ZeroDivisionError")
    ELSE IF pymod(a.p, b.p) # 0 THEN Raised("ExactQuotientFailed")
    ELSE E(t, floordiv(a.p, b.p), 1)

\* Field.exquo and Field.quo: a / b
Field_exquo(t, a, b) ==
    IF b.p = 0 THEN Raised("ZeroDivisionError") ELSE Normal(t, a.p * b.q, a.q * b.p)

\* K.exquo(a, b) and K.quo(a, b) for the integer rings and for QQ_python
exquo(K, a, b) ==
    IF K \in IntegerKinds THEN Ring_exquo(dtype(Base(K)), a, b)
    ELSE Field_exquo(dtype(Base(K)), a, b)

quo(K, a, b) ==
    IF K \in IntegerKinds THEN Ring_quo(dtype(Base(K)), a, b)
    ELSE Field_exquo(dtype(Base(K)), a, b)

\* igcdex(a, b): (x, y, g) with x*a + y*b = g = gcd(a, b) >= 0
RECURSIVE igcdex_loop(_, _, _, _, _, _)
igcdex_loop(a, b, r, s, x, y) ==
    IF b = 0 THEN <<x, y, a>>
    ELSE LET q == a \div b
         IN  igcdex_loop(b, a % b, x - q * r, y - q * s, r, s)

igcdex(a, b) ==
    IF a = 0 /\ b = 0 THEN <<0, 1, 0>>
    ELSE IF a = 0 THEN <<0, Sign(b), Abs(b)>>
    ELSE IF b = 0 THEN <<Sign(a), 0, Abs(a)>>
    ELSE LET l == igcdex_loop(Abs(a), Abs(b), 0, 1, 1, 0)
         IN  <<l[1] * Sign(a), l[2] * Sign(b), l[3]>>

\* gcdex of the three integer rings (python_gcdex, sympy_gcdex, gmpy_gcdex
\* reordered to s, t, h)
IntegerRing_gcdex(a, b) == igcdex(a.p, b.p)

Ring_invert_unchecked(t, a, b) ==
    IF b.p = 0 THEN Raised("ZeroDivisionError")
    ELSE E(t, pymod(IntegerRing_gcdex(a, b)[1], b.p), 1)

\* Ring.invert: s % b when the h of gcdex is one
Ring_invert(t, a, b) ==
    LET sth == IntegerRing_gcdex(a, b)
    IN  IF sth[3] = 1
        THEN IF b.p = 0 THEN Raised("ZeroDivisionError")
             ELSE E(t, pymod(sth[1], b.p), 1)
        ELSE Raised("NotInvertible")

\* K.invert(a, b): the fields inherit Ring.invert and have no gcdex, the
\* real domains inherit Algebra.invert
invert(K, a, b) ==
    IF K \in IntegerKinds THEN Ring_invert(dtype(Base(K)), a, b)
    ELSE Raised("NotImplementedError")

\* self.one
one(K) == IF K = "QQ_sympy" THEN sympy_rat(1, 1) ELSE E(dtype(Base(K)), 1, 1)

\* Field.gcd: self.one
Field_gcd(K, a, b) == one(K)

\* K.gcd(a, b): the integer rings have their own gcd (igcd), the classes
\* below Field inherit Field.gcd, and RealAlgebra, which is not below Field,
\* inherits Algebra.gcd
Algebra_gcd(K, a, b) ==
    IF K \in IntegerKinds THEN E(dtype(Base(K)), gcd(Abs(a.p), Abs(b.p)), 1)
    ELSE IF has_Field(Base(K)) THEN Field_gcd(K, a, b)
    ELSE Raised("NotImplementedError")

\* the domains whose arithmetic is sampled
DivisionKinds == IntegerKinds \cup {"QQ_python"}

GcdKinds == IntegerKinds \cup RationalKinds \cup RealKinds \cup {"ExpressionDomain"}

(***************************************************************************)
(* Dense representations.  A representation is a record of its nesting    *)
(* (nest: 0 for a list of coefficients, 1 for a list of such lists) and    *)
(* of its coefficients in the outermost variable, leading coefficient      *)
(* first (c).  The sampled representations of nesting 1 are constant in    *)
(* the inner variable, so that a coefficient of c stands for the inner     *)
(* list holding it, and the zero polynomial has no coefficients at either  *)
(* nesting.  A coefficient is a domain element, a record of E.             *)
(*                                                                         *)
(* The functions of densebasic, densearith and euclidtools are modelled    *)
(* by what they compute: coefficient-wise arithmetic with the operators    *)
(* of the coefficients' own classes, leading zeros stripped, and the       *)
(* cancellation of a fraction by the greatest common divisor of its        *)
(* numerator and denominator with the denominator made positive.           *)
(***************************************************************************)
\* bound of the sampled coefficients: -MaxCoeff..MaxCoeff
MaxCoeff == 1

Rep(n, c) == [nest |-> n, c |-> c]

\* a + b, a * b and -a of Python for ints and Fractions: an int and a
\* Fraction give a Fraction
Promote(t1, t2) == IF t1 = t2 THEN t1 ELSE "Fraction"

el_add(a, b) == Normal(Promote(a.type, b.type), a.p * b.q + b.p * a.q, a.q * b.q)

el_mul(a, b) == Normal(Promote(a.type, b.type), a.p * b.p, a.q * b.q)

el_neg(a) == E(a.type, -a.p, a.q)

\* dup_strip: drop the leading zero coefficients
RECURSIVE dup_strip(_)
dup_strip(f) ==
    IF f = <<>> THEN f
    ELSE IF f[1].p = 0 THEN dup_strip(Tail(f)) ELSE f

\* the coefficient of x^k in f, for k >= 0 (an int zero where f has none)
Coeff(f, k) == IF k < Len(f) THEN f[Len(f) - k] ELSE E("int", 0, 1)

Max(m, n) == IF m >= n THEN m ELSE n

dup_neg(f) == [i \in 1..Len(f) |-> el_neg(f[i])]

\* dup_add returns the other operand itself when one is the empty list
dup_add(F, G) ==
    Only({IF f = <<>> THEN g
          ELSE IF g = <<>> THEN f
          ELSE Only({dup_strip([i \in 1..n |->
                         IF n - i >= Len(g) THEN f[i - (n - Len(f))]
                         ELSE IF n - i >= Len(f) THEN g[i - (n - Len(g))]
                         ELSE el_add(Coeff(f, n - i), Coeff(g, n - i))]) :
                     n \in {Max(Len(f), Len(g))}}) :
          f \in {F}, g \in {G}})

dup_sub(F, G) ==
    Only({IF f = <<>> THEN dup_neg(g)
          ELSE IF g = <<>> THEN f
          ELSE Only({dup_strip([i \in 1..n |->
                         IF n - i >= Len(g) THEN f[i - (n - Len(f))]
                         ELSE IF n - i >= Len(f) THEN el_neg(g[i - (n - Len(g))])
                         ELSE el_add(Coeff(f, n - i), el_neg(Coeff(g, n - i)))]) :
                     n \in {Max(Len(f), Len(g))}}) :
          f \in {F}, g \in {G}})

\* the sum of f[j] * g[k-j] over the j from lo to hi
RECURSIVE ConvSum(_, _, _, _, _)
ConvSum(f, g, k, lo, hi) ==
    IF lo > hi THEN E("int", 0, 1)
    ELSE IF lo = hi THEN el_mul(Coeff(f, lo), Coeff(g, k - lo))
    ELSE el_add(el_mul(Coeff(f, lo), Coeff(g, k - lo)), ConvSum(f, g, k, lo + 1, hi))

dup_mul(F, G) ==
    Only({IF f = <<>> \/ g = <<>> THEN <<>>
          ELSE Only({dup_strip([i \in 1..n |->
                         ConvSum(f, g, n - i, Max(0, n - i - (Len(g) - 1)),
                                 IF n - i < Len(f) THEN n - i ELSE Len(f) - 1)]) :
                     n \in {Len(f) + Len(g) - 1}}) :
          f \in {F}, g \in {G}})

\* dmp_one(lev, dom) and dmp_pow(f, n, lev, dom) for n >= 0
dmp_one(t) == <<E(t, 1, 1)>>

RECURSIVE dup_pow(_, _, _)
dup_pow(F, n, t) ==
    Only({IF n = 0 THEN dmp_one(t) ELSE dup_mul(f, dup_pow(f, n - 1, t)) : f \in {F}})

dmp_zero_p(f) == f.c = <<>>

\* dmp_negative_p: the leading coefficient is negative
dmp_negative_p(f) == f.c # <<>> /\ f.c[1].p < 0

(***************************************************************************)
(* The greatest common divisor of two polynomials with integer             *)
(* coefficients, on the sequences of the integers, by the primitive        *)
(* polynomial remainder sequence.                                          *)
(***************************************************************************)
RECURSIVE istrip(_)
istrip(s) == IF s = <<>> THEN s ELSE IF s[1] = 0 THEN istrip(Tail(s)) ELSE s

RECURSIVE icontent(_)
icontent(s) == IF s = <<>> THEN 0 ELSE gcd(Abs(s[1]), icontent(Tail(s)))

\* s divided by k, for k > 0 that divides every coefficient
idivide(s, k) == [i \in 1..Len(s) |-> Sign(s[i]) * (Abs(s[i]) \div k)]

\* the primitive part, with a positive leading coefficient
ipp(s) == IF s = <<>> THEN s
          ELSE [i \in 1..Len(s) |-> Sign(s[1]) * idivide(s, icontent(s))[i]]

\* a pseudo-remainder of f by g # 0
RECURSIVE iprem(_, _)
iprem(f, g) ==
    IF Len(f) < Len(g) THEN f
    ELSE iprem(istrip(Tail([i \in 1..Len(f) |->
                   g[1] * f[i] - (IF i <= Len(g) THEN f[1] * g[i] ELSE 0)])), g)

RECURSIVE igcd_pp(_, _)
igcd_pp(f, g) == IF g = <<>> THEN f ELSE igcd_pp(g, ipp(iprem(f, g)))

\* gcd(f, g) for f # 0 and g # 0, with a positive leading coefficient
ipolygcd(f, g) ==
    LET c == gcd(icontent(f), icontent(g))
        h == igcd_pp(ipp(f), ipp(g))
    IN  [i \in 1..Len(h) |-> c * h[i]]

\* the first k coefficients of the quotient of r by h, for h that divides r
\* and has a positive leading coefficient
RECURSIVE idiv(_, _, _)
idiv(r, h, k) ==
    IF k = 0 THEN <<>>
    ELSE LET q == Sign(r[1]) * (Abs(r[1]) \div h[1])
         IN  <<q>> \o idiv(Tail([i \in 1..Len(r) |->
                              r[i] - (IF i <= Len(h) THEN q * h[i] ELSE 0)]), h, k - 1)

iexquo(f, h) == idiv(f, h, Len(f) - Len(h) + 1)

Ints(f) == [i \in 1..Len(f) |-> f[i].p]

Elems(s, t) == [i \in 1..Len(s) |-> E(t, s[i], 1)]

\* dmp_cancel(f, g, lev, dom), for coefficients with integer values of the
\* class t: a zero f or g is returned as it is; else both are divided by
\* their gcd and the denominator is made positive
dmp_cancel(f, g, t) ==
    IF f = <<>> \/ g = <<>> THEN <<f, g>>
    ELSE LET h == ipolygcd(Ints(f), Ints(g))
             p == iexquo(Ints(f), h)
             q == iexquo(Ints(g), h)
         IN  IF q[1] < 0
             THEN <<Elems([i \in 1..Len(p) |-> -p[i]], t),
                    Elems([i \in 1..Len(q) |-> -q[i]], t)>>
             ELSE <<Elems(p, t), Elems(q, t)>>

(***************************************************************************)
(* Objects.  The instances of DMP and DMF live in a heap, a sequence of    *)
(* records of their slots; a reference is an index of the heap.  A method  *)
(* is given the heap and references and returns the exception it raised,   *)
(* the reference it returned and the heap it left.                         *)
(***************************************************************************)
\* the value of an absent lev argument
NoLev == -1

Fail(heap, e) == [exc |-> e, ret |-> 0, heap |-> heap]

\* DMP(rep, dom, lev) for a list rep and a given lev: a new instance whose
\* slots are assigned by __init__
DMP_init(heap, rep, dom, lev) ==
    [exc |-> "none", ret |-> Len(heap) + 1,
     heap |-> Append(heap, [cls |-> "DMP", rep |-> rep, lev |-> lev, dom |-> dom])]

DMP_per_in_place(heap, f, rep) ==
    [exc |-> "none", ret |-> f, heap |-> [heap EXCEPT ![f].rep = rep]]

\* f.per(rep)
DMP_per(heap, f, rep) == DMP_init(heap, rep, heap[f].dom, heap[f].lev)

\* f.unify(g): the method returns f.lev, f.dom, f.per, f.rep, g.rep before
\* its tests of g; a g without a rep slot is an AttributeError
DMP_unify(heap, f, g) ==
    IF heap[g].cls # "DMP" THEN [exc |-> "AttributeError"]
    ELSE [exc |-> "none", lev |-> heap[f].lev, dom |-> heap[f].dom,
          F |-> heap[f].rep, G |-> heap[g].rep]

\* dmp_add, dmp_sub and dmp_mul(F, G, lev, dom) for F of the nesting lev.
\* Given a G of another nesting they return an operand as it is when one
\* is zero (the empty list, for G) and fail in the arithmetic of a
\* coefficient with a list otherwise.
dmp_add(F, G, lev) ==
    IF G.nest = lev THEN [exc |-> "none", rep |-> Rep(lev, dup_add(F.c, G.c))]
    ELSE IF F.c = <<>> THEN [exc |-> "none", rep |-> G]
    ELSE IF G.c = <<>> /\ G.nest = 0 THEN [exc |-> "none", rep |-> F]
    ELSE [exc |-> "TypeError"]

dmp_sub(F, G, lev) ==
    IF G.nest = lev THEN [exc |-> "none", rep |-> Rep(lev, dup_sub(F.c, G.c))]
    ELSE IF G.c = <<>> /\ G.nest = 0
    THEN [exc |-> "none", rep |-> IF F.c = <<>> THEN G ELSE F]
    ELSE [exc |-> "TypeError"]

dmp_mul(F, G, lev) ==
    IF G.nest = lev THEN [exc |-> "none", rep |-> Rep(lev, dup_mul(F.c, G.c))]
    ELSE IF F.c = <<>> THEN [exc |-> "none", rep |-> F]
    ELSE IF G.c = <<>> /\ G.nest = 0 THEN [exc |-> "none", rep |-> G]
    ELSE [exc |-> "TypeError"]

dmp_op(op, F, G, lev) ==
    CASE op = "add" -> dmp_add(F, G, lev)
      [] op = "sub" -> dmp_sub(F, G, lev)
      [] op = "mul" -> dmp_mul(F, G, lev)

\* f.add(g), f.sub(g) and f.mul(g):
\* lev, dom, per, F, G = f.unify(g); return per(dmp_op(F, G, lev, dom))
DMP_op(heap, op, f, g) ==
    LET u == DMP_unify(heap, f, g)
    IN  IF u.exc # "none" THEN Fail(heap, u.exc)
        ELSE LET r == dmp_op(op, u.F, u.G, u.lev)
             IN  IF r.exc # "none" THEN Fail(heap, r.exc)
                 ELSE DMP_per(heap, f, r.rep)

DMP_add(heap, f, g) == DMP_op(heap, "add", f, g)

DMP_sub(heap, f, g) == DMP_op(heap, "sub", f, g)

DMP_mul(heap, f, g) == DMP_op(heap, "mul", f, g)

(***************************************************************************)
(* DMF.  The rep argument of the constructors is a tuple (num, den) of     *)
(* two lists, <<num, den>>, or one list, <<num>>.                          *)
(***************************************************************************)
\* dmp_validate(rep): the stripped representation and its level
dmp_validate(rep) == <<Rep(rep.nest, dup_strip(rep.c)), rep.nest>>

\* DMF._parse(rep, dom, lev)
DMF__parse(rep, dom, lev) ==
    IF Len(rep) = 2
    THEN IF lev = NoLev /\ dmp_validate(rep[1])[2] # dmp_validate(rep[2])[2]
         THEN [exc |-> "ValueError"]
         ELSE LET L == IF lev # NoLev THEN lev ELSE dmp_validate(rep[1])[2]
                  num == IF lev # NoLev THEN rep[1] ELSE dmp_validate(rep[1])[1]
                  den == IF lev # NoLev THEN rep[2] ELSE dmp_validate(rep[2])[1]
              IN  IF dmp_zero_p(den) THEN [exc |-> "ZeroDivisionError"]
                  ELSE IF dmp_zero_p(num)
                  THEN [exc |-> "none", num |-> num,
                        den |-> Rep(L, dmp_one(dtype(dom))), lev |-> L]
                  ELSE IF dmp_negative_p(den)
                  THEN [exc |-> "none", num |-> Rep(num.nest, dup_neg(num.c)),
                        den |-> Rep(den.nest, dup_neg(den.c)), lev |-> L]
                  ELSE [exc |-> "none", num |-> num, den |-> den, lev |-> L]
    ELSE LET L == IF lev # NoLev THEN lev ELSE dmp_validate(rep[1])[2]
             num == IF lev # NoLev THEN rep[1] ELSE dmp_validate(rep[1])[1]
         IN  [exc |-> "none", num |-> num,
              den |-> Rep(L, dmp_one(dtype(dom))), lev |-> L]

\* a new instance with the given slots
DMF_store(heap, num, den, lev, dom) ==
    [exc |-> "none", ret |-> Len(heap) + 1,
     heap |-> Append(heap, [cls |-> "DMF", num |-> num, den |-> den,
                            lev |-> lev, dom |-> dom])]

\* dmp_cancel on representations
Cancelled(num, den, dom) ==
    LET nd == dmp_cancel(num.c, den.c, dtype(dom))
    IN  <<Rep(num.nest, nd[1]), Rep(den.nest, nd[2])>>

DMF_init_uncancelled(heap, rep, dom, lev) ==
    LET p == DMF__parse(rep, dom, lev)
    IN  IF p.exc # "none" THEN Fail(heap, p.exc)
        ELSE DMF_store(heap, p.num, p.den, p.lev, dom)

\* DMF(rep, dom, lev): _parse, dmp_cancel, and the slots are assigned
DMF_init(heap, rep, dom, lev) ==
    LET p == DMF__parse(rep, dom, lev)
    IN  IF p.exc # "none" THEN Fail(heap, p.exc)
        ELSE LET nd == Cancelled(p.num, p.den, dom)
             IN  DMF_store(heap, nd[1], nd[2], p.lev, dom)

\* DMF.new(rep, dom, lev): _parse, and the slots are assigned
DMF_new(heap, rep, dom, lev) ==
    LET p == DMF__parse(rep, dom, lev)
    IN  IF p.exc # "none" THEN Fail(heap, p.exc)
        ELSE DMF_store(heap, p.num, p.den, p.lev, dom)

\* per(num, den, cancel) of DMF.per, for the level lev and the domain dom
DMF_make(heap, dom, lev, num, den, cancel) ==
    IF cancel
    THEN LET nd == Cancelled(num, den, dom)
         IN  DMF_new(heap, <<nd[1], nd[2]>>, dom, lev)
    ELSE DMF_new(heap, <<num, den>>, dom, lev)

\* f.per(num, den, cancel)
DMF_per(heap, f, num, den, cancel) ==
    DMF_make(heap, heap[f].dom, heap[f].lev, num, den, cancel)

\* per(num, den, cancel) of the function per that poly_unify and frac_unify
\* define for two different domains: its branch for kill assigns lev, so
\* lev is a local variable of per and not the lev of the enclosing method,
\* and the uses of lev in dmp_cancel(num, den, lev, dom) and in
\* new((num, den), dom, lev) are reads of a local variable without a value
DMF_unify_per(heap, dom, num, den, cancel) == Fail(heap, "UnboundLocalError")

\* per(num, den) for the per that poly_unify or frac_unify returned
DMF_call_per(heap, u, num, den) ==
    IF u.per = "f.per" THEN DMF_make(heap, u.dom, u.lev, num, den, TRUE)
    ELSE DMF_unify_per(heap, u.dom, num, den, TRUE)

\* dmp_convert(f, lev, K0, K1): every coefficient is converted with
\* K1.convert(c, K0) and the result is stripped
dmp_convert(f, K0, K1) ==
    Only({IF \E i \in 1..Len(cs) : cs[i].type \in Exceptions
          THEN [exc |-> (CHOOSE e \in Exceptions : \E i \in 1..Len(cs) :
                            /\ cs[i].type = e
                            /\ \A j \in 1..(i - 1) : cs[j].type \notin Exceptions)]
          ELSE [exc |-> "none", rep |-> Rep(f.nest, dup_strip(cs))] :
          cs \in {[i \in 1..Len(f.c) |-> convert(K1.kind, f.c[i], K0.kind)]}})

\* f.frac_unify(g)
DMF_frac_unify(heap, f, g) ==
    LET a == heap[f]
        b == heap[g]
    IN  IF b.cls # "DMF" \/ a.lev # b.lev THEN [exc |-> "UnificationFailed"]
        ELSE IF DomEq(a.dom, b.dom)
        THEN [exc |-> "none", lev |-> a.lev, dom |-> a.dom, per |-> "f.per",
              Fn |-> a.num, Fd |-> a.den, Gn |-> b.num, Gd |-> b.den]
        ELSE Only({
            IF u.exc # "none" THEN [exc |-> u.exc]
            ELSE Only({
                IF Fn.exc # "none" THEN [exc |-> Fn.exc]
                ELSE IF Fd.exc # "none" THEN [exc |-> Fd.exc]
                ELSE IF Gn.exc # "none" THEN [exc |-> Gn.exc]
                ELSE IF Gd.exc # "none" THEN [exc |-> Gd.exc]
                ELSE [exc |-> "none", lev |-> a.lev, dom |-> u.val,
                      per |-> "per",
                      Fn |-> Fn.rep, Fd |-> Fd.rep,
                      Gn |-> Gn.rep, Gd |-> Gd.rep] :
                Fn \in {dmp_convert(a.num, a.dom, u.val)},
                Fd \in {dmp_convert(a.den, a.dom, u.val)},
                Gn \in {dmp_convert(b.num, b.dom, u.val)},
                Gd \in {dmp_convert(b.den, b.dom, u.val)}}) :
            u \in {unify(a.dom, b.dom, None)}})

\* f.poly_unify(g)
DMF_poly_unify(heap, f, g) ==
    LET a == heap[f]
        b == heap[g]
    IN  IF b.cls # "DMP" \/ a.lev # b.lev THEN [exc |-> "UnificationFailed"]
        ELSE IF DomEq(a.dom, b.dom)
        THEN [exc |-> "none", lev |-> a.lev, dom |-> a.dom, per |-> "f.per",
              Fn |-> a.num, Fd |-> a.den, G |-> b.rep]
        ELSE Only({
            IF u.exc # "none" THEN [exc |-> u.exc]
            ELSE Only({
                IF Fn.exc # "none" THEN [exc |-> Fn.exc]
                ELSE IF Fd.exc # "none" THEN [exc |-> Fd.exc]
                ELSE IF G.exc # "none" THEN [exc |-> G.exc]
                ELSE [exc |-> "none", lev |-> a.lev, dom |-> u.val,
                      per |-> "per",
                      Fn |-> Fn.rep, Fd |-> Fd.rep, G |-> G.rep] :
                Fn \in {dmp_convert(a.num, a.dom, u.val)},
                Fd \in {dmp_convert(a.den, a.dom, u.val)},
                G \in {dmp_convert(b.rep, b.dom, u.val)}}) :
            u \in {unify(a.dom, b.dom, None)}})

\* the numerator and denominator that add, sub, mul and quo hand to per,
\* for a polynomial G and for a fraction Gn/Gd
PolyTerm(op, l, Fn, Fd, G) ==
    CASE op = "add" -> <<Rep(l, dup_add(Fn.c, dup_mul(Fd.c, G.c))), Fd>>
      [] op = "sub" -> <<Rep(l, dup_sub(Fn.c, dup_mul(Fd.c, G.c))), Fd>>
      [] op = "mul" -> <<Rep(l, dup_mul(Fn.c, G.c)), Fd>>
      [] op = "quo" -> <<Fn, Rep(l, dup_mul(Fd.c, G.c))>>

FracTerm(op, l, Fn, Fd, Gn, Gd) ==
    CASE op = "add" -> <<Rep(l, dup_add(dup_mul(Fn.c, Gd.c), dup_mul(Fd.c, Gn.c))),
                         Rep(l, dup_mul(Fd.c, Gd.c))>>
      [] op = "sub" -> <<Rep(l, dup_sub(dup_mul(Fn.c, Gd.c), dup_mul(Fd.c, Gn.c))),
                         Rep(l, dup_mul(Fd.c, Gd.c))>>
      [] op = "mul" -> <<Rep(l, dup_mul(Fn.c, Gn.c)), Rep(l, dup_mul(Fd.c, Gd.c))>>
      [] op = "quo" -> <<Rep(l, dup_mul(Fn.c, Gd.c)), Rep(l, dup_mul(Fd.c, Gn.c))>>

\* f.add(g), f.sub(g), f.mul(g) and f.quo(g)
DMF_op(heap, op, f, g) ==
    IF heap[g].cls = "DMP"
    THEN Only({IF u.exc # "none" THEN Fail(heap, u.exc)
               ELSE Only({DMF_call_per(heap, u, nd[1], nd[2]) :
                          nd \in {PolyTerm(op, u.lev, u.Fn, u.Fd, u.G)}}) :
               u \in {DMF_poly_unify(heap, f, g)}})
    ELSE Only({IF u.exc # "none" THEN Fail(heap, u.exc)
               ELSE Only({DMF_call_per(heap, u, nd[1], nd[2]) :
                          nd \in {FracTerm(op, u.lev, u.Fn, u.Fd, u.Gn, u.Gd)}}) :
               u \in {DMF_frac_unify(heap, f, g)}})

\* f.neg()
DMF_neg(heap, f) ==
    DMF_per(heap, f, Rep(heap[f].num.nest, dup_neg(heap[f].num.c)), heap[f].den, FALSE)

\* f.pow(n) for an int n >= 0
DMF_pow(heap, f, n) ==
    DMF_per(heap, f,
            Rep(heap[f].num.nest, dup_pow(heap[f].num.c, n, dtype(heap[f].dom))),
            Rep(heap[f].den.nest, dup_pow(heap[f].den.c, n, dtype(heap[f].dom))),
            FALSE)

\* f.invert()
DMF_invert(heap, f) == DMF_per(heap, f, heap[f].den, heap[f].num, FALSE)

\* f.cancel()
DMF_cancel(heap, f) == DMF_per(heap, f, heap[f].num, heap[f].den, TRUE)

(***************************************************************************)
(* Division of univariate polynomials over a field, for ANP.               *)
(***************************************************************************)
\* a / b of two coefficients, b not zero
el_div(a, b) == Normal(Promote(a.type, b.type), a.p * b.q, a.q * b.p)

\* c * x^d
dup_monomial(c, d) == [i \in 1..(d + 1) |-> IF i = 1 THEN c ELSE E(c.type, 0, 1)]

RECURSIVE dup_div_loop(_, _, _)
\* the quotient and the remainder of q * g + r by g, g not zero
dup_div_loop(q, r, g) ==
    IF Len(r) < Len(g) THEN <<q, r>>
    ELSE Only({Only({dup_div_loop(q1, r1, g) :
                     q1 \in {dup_add(q, t)}, r1 \in {dup_sub(r, dup_mul(t, g))}}) :
               t \in {dup_monomial(el_div(r[1], g[1]), Len(r) - Len(g))}})

dup_div(F, G) == Only({dup_div_loop(<<>>, f, g) : f \in {F}, g \in {G}})

dup_rem(f, g) == dup_div(f, g)[2]

RECURSIVE dup_half_gcdex_loop(_, _, _, _)
\* <<s, h>> with s * f = h modulo g, h a greatest common divisor of f and g,
\* from <<a, b, s0, s1>> with s0 * f = a and s1 * f = b modulo g
dup_half_gcdex_loop(a, b, s0, s1) ==
    IF b = <<>> THEN <<s0, a>>
    ELSE Only({Only({dup_half_gcdex_loop(b, qr[2], s1, s2) :
                     s2 \in {dup_sub(s0, dup_mul(qr[1], s1))}}) :
               qr \in {dup_div(a, b)}})

\* dup_invert(f, g, K): the inverse of f modulo g, or NotInvertible when
\* the greatest common divisor of f and g is not a constant
dup_invert(f, g, t) ==
    Only({IF Len(sh[2]) # 1 THEN [exc |-> "NotInvertible"]
          ELSE [exc |-> "none",
                rep |-> dup_rem(dup_mul(sh[1], <<el_div(E(t, 1, 1), sh[2][1])>>), g)] :
          sh \in {Only({dup_half_gcdex_loop(a, b, dmp_one(t), <<>>) : a \in {f}, b \in {g}})}})

(***************************************************************************)
(* ANP.  rep and mod are lists of coefficients.                            *)
(***************************************************************************)
\* ANP(rep, mod, dom) for two lists: both are stripped and the slots are
\* assigned
ANP_init(heap, rep, mod, dom) ==
    [exc |-> "none", ret |-> Len(heap) + 1,
     heap |-> Append(heap, [cls |-> "ANP", rep |-> dup_strip(rep),
                            mod |-> dup_strip(mod), dom |-> dom])]

\* f.per(rep)
ANP_per(heap, f, rep) == ANP_init(heap, rep, heap[f].mod, heap[f].dom)

\* m1 == m2 of two lists of numbers
ListEq(m1, m2) ==
    /\ Len(m1) = Len(m2)
    /\ \A i \in 1..Len(m1) : m1[i].p * m2[i].q = m2[i].p * m1[i].q

\* f.unify(g): for two domains of which one is the unified domain, mod is
\* a local variable that no branch assigns
ANP_unify(heap, f, g) ==
    LET a == heap[f]
        b == heap[g]
    IN  IF b.cls # "ANP" THEN [exc |-> "UnificationFailed"]
        ELSE IF ~ListEq(a.mod, b.mod) THEN [exc |-> "UnificationFailed"]
        ELSE IF DomEq(a.dom, b.dom)
        THEN [exc |-> "none", dom |-> a.dom, F |-> a.rep, G |-> b.rep, mod |-> a.mod]
        ELSE Only({
            IF u.exc # "none" THEN [exc |-> u.exc]
            ELSE Only({
                IF F.exc # "none" THEN [exc |-> F.exc]
                ELSE IF G.exc # "none" THEN [exc |-> G.exc]
                ELSE IF ~DomEq(u.val, a.dom) /\ ~DomEq(u.val, b.dom)
                THEN Only({IF M.exc # "none" THEN [exc |-> M.exc]
                           ELSE [exc |-> "none", dom |-> u.val, F |-> F.rep.c,
                                 G |-> G.rep.c, mod |-> M.rep.c] :
                           M \in {dmp_convert(Rep(0, a.mod), a.dom, u.val)}})
                ELSE [exc |-> "UnboundLocalError"] :
                F \in {dmp_convert(Rep(0, a.rep), a.dom, u.val)},
                G \in {dmp_convert(Rep(0, b.rep), b.dom, u.val)}}) :
            u \in {unify(a.dom, b.dom, None)}})

\* f.add(g) and f.sub(g): dom, per, F, G, mod = f.unify(g) and
\* per(dup_add(F, G, dom)), per being f.per or ANP(rep, mod, dom)
ANP_op(heap, op, f, g) ==
    Only({IF u.exc # "none" THEN Fail(heap, u.exc)
          ELSE ANP_init(heap, IF op = "add" THEN dup_add(u.F, u.G) ELSE dup_sub(u.F, u.G),
                        u.mod, u.dom) :
          u \in {ANP_unify(heap, f, g)}})

ANP_add(heap, f, g) == ANP_op(heap, "add", f, g)

ANP_sub(heap, f, g) == ANP_op(heap, "sub", f, g)

\* f.neg()
ANP_neg(heap, f) == ANP_per(heap, f, dup_neg(heap[f].rep))

\* F * G^-1 modulo mod, the representative that quo and div compute
ANP_quo_rep(F, G, mod, dom) ==
    Only({IF i.exc # "none" THEN i
          ELSE [exc |-> "none", rep |-> dup_rem(dup_mul(F, i.rep), mod)] :
          i \in {dup_invert(G, mod, dtype(dom))}})

\* f.mul(g): per(dup_rem(dup_mul(F, G, dom), mod, dom))
ANP_mul(heap, f, g) ==
    Only({IF u.exc # "none" THEN Fail(heap, u.exc)
          ELSE ANP_init(heap, dup_rem(dup_mul(u.F, u.G), u.mod), u.mod, u.dom) :
          u \in {ANP_unify(heap, f, g)}})

\* f.quo(g)
ANP_quo(heap, f, g) ==
    Only({IF u.exc # "none" THEN Fail(heap, u.exc)
          ELSE Only({IF q.exc # "none" THEN Fail(heap, q.exc)
                     ELSE ANP_init(heap, q.rep, u.mod, u.dom) :
                     q \in {ANP_quo_rep(u.F, u.G, u.mod, u.dom)}}) :
          u \in {ANP_unify(heap, f, g)}})

\* f.div(g): the pair of per(...) and self.zero(mod, dom); the first
\* parameter of the method is f and self is no name of the method or of
\* the module
ANP_div(heap, f, g) ==
    Only({IF u.exc # "none" THEN Fail(heap, u.exc)
          ELSE Only({IF q.exc # "none" THEN Fail(heap, q.exc)
                     ELSE Fail(heap, "NameError") :
                     q \in {ANP_quo_rep(u.F, u.G, u.mod, u.dom)}}) :
          u \in {ANP_unify(heap, f, g)}})

\* f.rem(g): self.zero(mod, dom) after f.unify(g)
ANP_rem(heap, f, g) ==
    Only({IF u.exc # "none" THEN Fail(heap, u.exc) ELSE Fail(heap, "NameError") :
          u \in {ANP_unify(heap, f, g)}})

\* f.pow(n) for an int n
ANP_pow(heap, f, n) ==
    LET a == heap[f]
        t == dtype(a.dom)
    IN  IF n < 0
        THEN Only({IF i.exc # "none" THEN Fail(heap, i.exc)
                   ELSE ANP_per(heap, f, dup_rem(dup_pow(i.rep, -n, t), a.mod)) :
                   i \in {dup_invert(a.rep, a.mod, t)}})
        ELSE ANP_per(heap, f, dup_rem(dup_pow(a.rep, n, t), a.mod))

\* the binary methods of ANP
ANP_binary(heap, op, f, g) ==
    CASE op \in {"add", "sub"} -> ANP_op(heap, op, f, g)
      [] op = "mul" -> ANP_mul(heap, f, g)
      [] op = "quo" -> ANP_quo(heap, f, g)
      [] op = "div" -> ANP_div(heap, f, g)
      [] op = "rem" -> ANP_rem(heap, f, g)

(***************************************************************************)
(* The sampled dense polynomials and fractions.                            *)
(***************************************************************************)
DenseDomains == {ZZ, QQ}

Levels == {0, 1}

\* the coefficients with integer values, and for QQ also 1/2
IntCoeffs(K) == {E(dtype(K), n, 1) : n \in -MaxCoeff..MaxCoeff}

Coeffs(K) == IntCoeffs(K) \cup (IF K = QQ THEN {E("Fraction", 1, 2)} ELSE {})

\* the stripped lists of at most two coefficients of C
Lists(C) ==
    {<<>>} \cup {<<a>> : a \in {x \in C : x.p # 0}}
           \cup {<<a, b>> : a \in {x \in C : x.p # 0}, b \in C}

DMPObject(c, l, K) == [cls |-> "DMP", rep |-> Rep(l, c), lev |-> l, dom |-> K]

DMPs(K) == {DMPObject(c, l, K) : c \in Lists(Coeffs(K)), l \in Levels}

\* the polynomial operands of the operations of a fraction: 0 and x + 1
\* over ZZ and -x over QQ in one variable, and 1 over ZZ in two
PolyOperands ==
    {DMPObject(<<>>, 0, ZZ),
     DMPObject(<<E("int", 1, 1), E("int", 1, 1)>>, 0, ZZ),
     DMPObject(<<E("Fraction", -1, 1), E("Fraction", 0, 1)>>, 0, QQ),
     DMPObject(<<E("int", 1, 1)>>, 1, ZZ)}

DMFObject(n, d, l, K) ==
    [cls |-> "DMF", num |-> Rep(l, n), den |-> Rep(l, d), lev |-> l, dom |-> K]

\* the fraction operands: 0, x, -1/x and (x - 1)/(x + 1) over ZZ and
\* 1/(x + 1) over QQ in one variable, and x over ZZ in two
FracOperands ==
    {DMFObject(<<>>, <<E("int", 1, 1)>>, 0, ZZ),
     DMFObject(<<E("int", 1, 1), E("int", 0, 1)>>, <<E("int", 1, 1)>>, 0, ZZ),
     DMFObject(<<E("int", -1, 1)>>, <<E("int", 1, 1), E("int", 0, 1)>>, 0, ZZ),
     DMFObject(<<E("int", 1, 1), E("int", -1, 1)>>,
               <<E("int", 1, 1), E("int", 1, 1)>>, 0, ZZ),
     DMFObject(<<E("Fraction", 1, 1)>>,
               <<E("Fraction", 1, 1), E("Fraction", 1, 1)>>, 0, QQ),
     DMFObject(<<E("int", 1, 1), E("int", 0, 1)>>, <<E("int", 1, 1)>>, 1, ZZ)}

\* the rep arguments of the constructors of a fraction over K
FracReps(K) ==
    {<<Rep(l1, n), Rep(l2, d)>> :
        n \in Lists(IntCoeffs(K)), d \in Lists(IntCoeffs(K)), l1 \in Levels, l2 \in Levels}
      \cup {<<Rep(l, n)>> : n \in Lists(IntCoeffs(K)), l \in Levels}

\* the lev arguments given with a rep: none, or the level of its lists
LevArgs(rep) ==
    {NoLev} \cup {l \in Levels : \A i \in 1..Len(rep) : rep[i].nest = l}

\* the fraction is one of the sampled size
InWindow(r) ==
    /\ r.num.c \in Lists(IntCoeffs(r.dom))
    /\ r.den.c \in Lists(IntCoeffs(r.dom))

ANPObject(c, m, K) == [cls |-> "ANP", rep |-> c, mod |-> m, dom |-> K]

\* the algebraic numbers: those of at most two coefficients modulo
\* x^2 + 1 over QQ, and 1 + x modulo x^2 - 1 over QQ and x^2 + 1 over ZZ
ANPs ==
    {ANPObject(c, Elems(<<1, 0, 1>>, "Fraction"), QQ) : c \in Lists(Coeffs(QQ))}
      \cup {ANPObject(Elems(<<1, 1>>, "Fraction"), Elems(<<1, 0, -1>>, "Fraction"), QQ),
            ANPObject(Elems(<<1, 1>>, "int"), Elems(<<1, 0, 1>>, "int"), ZZ)}

\* the moduli x + 1 and x^2 + 1
Moduli(K) == {Elems(<<1, 1>>, dtype(K)), Elems(<<1, 0, 1>>, dtype(K))}

ANPOps == {"add", "sub", "mul", "quo", "div", "rem"}

ANPPowers == -1..2

BinaryOps == {"add", "sub", "mul", "quo"}

Powers == 0..2

(***************************************************************************)
(* The facade: _construct_domain.  rep is the list of the coefficients of  *)
(* the dict in the order in which the dict yields them.  A coefficient is  *)
(* a SymPy object: an Integer, a Rational, a Real, the algebraic number    *)
(* sqrt(2) (type "Algebraic"), the symbol y (type "Symbol") or 1/y (type   *)
(* "Inverse").                                                             *)
(***************************************************************************)
\* the number of coefficients of a sampled dict is 1..MaxCoeffs
MaxCoeffs == 3

SympyOne == sympy_int(1)

\* ask(coeff, 'algebraic') for a coefficient that is neither Rational nor Real
ask_algebraic(coeff) == coeff.type = "Algebraic"

\* the for loop of _construct_simple from coefficient i on: the flags when
\* the loop ends, or the value that the function returns from the loop
RECURSIVE _construct_simple_scan(_, _, _, _, _, _)
_construct_simple_scan(rep, i, extension, rational, inexact, algebraic) ==
    IF i > Len(rep)
    THEN [ret |-> "flags", rational |-> rational, inexact |-> inexact, algebraic |-> algebraic]
    ELSE IF is_Rational(rep[i])
    THEN _construct_simple_scan(rep, i + 1, extension,
                                rational \/ ~is_Integer(rep[i]), inexact, algebraic)
    ELSE IF is_Real(rep[i])
    THEN IF ~algebraic
         THEN _construct_simple_scan(rep, i + 1, extension, rational, TRUE, algebraic)
         ELSE [ret |-> "False", rational |-> rational, inexact |-> inexact, algebraic |-> algebraic]
    ELSE IF extension /\ ask_algebraic(rep[i])
    THEN IF ~inexact
         THEN _construct_simple_scan(rep, i + 1, extension, rational, inexact, TRUE)
         ELSE [ret |-> "False", rational |-> rational, inexact |-> inexact, algebraic |-> algebraic]
    ELSE [ret |-> "None", rational |-> rational, inexact |-> inexact, algebraic |-> algebraic]

\* the exception that the first failed conversion of a list raised
FirstRaised(conv) ==
    IF \E i \in 1..Len(conv) : conv[i].type \in Exceptions
    THEN conv[CHOOSE i \in 1..Len(conv) :
                  /\ conv[i].type \in Exceptions
                  /\ \A j \in 1..(i - 1) : conv[j].type \notin Exceptions].type
    ELSE "none"

\* what _construct_domain returns: the domain K and the converted
\* coefficients, or the exception raised
Constructed(K, conv) ==
    IF FirstRaised(conv) # "none"
    THEN [exc |-> FirstRaised(conv), K |-> NoDom, rep |-> <<>>]
    ELSE [exc |-> "none", K |-> K, rep |-> conv]

\* _construct_simple: "None" and "False" in exc stand for the two values
\* that send _construct_domain on.  In the algebraic branch
\* primitive_element gives the extension (1 here) and every coefficient
\* becomes an ANP over QQ
_construct_simple(rep, extension, field) ==
    LET s == _construct_simple_scan(rep, 1, extension, FALSE, FALSE, FALSE)
    IN  IF s.ret # "flags" THEN [exc |-> s.ret, K |-> NoDom, rep |-> <<>>]
        ELSE IF s.algebraic
        THEN Constructed(AlgebraicField(1),
                         [i \in 1..Len(rep) |-> E("ANP", rep[i].p, rep[i].q)])
        ELSE LET K == IF s.inexact THEN RR
                      ELSE IF field \/ s.rational THEN QQ ELSE ZZ
             IN  Constructed(K, [i \in 1..Len(rep) |-> from_sympy(K.kind, rep[i])])

\* coeff.as_numer_denom(): (p, q) for a Rational, (1, y) for 1/y and
\* (coeff, 1) for every other sampled coefficient
as_numer_denom(coeff) ==
    IF coeff.type = "Rational" THEN <<sympy_int(coeff.p), sympy_int(coeff.q)>>
    ELSE IF coeff.type = "Inverse" THEN <<SympyOne, E("Symbol", coeff.p, coeff.q)>>
    ELSE <<coeff, SympyOne>>

\* the generators that _dict_from_basic_no_gens finds in ex; none for a
\* number, for which it raises GeneratorsNeeded
gens_of(ex) ==
    IF ex.type \in {"Integer", "Rational", "Real"} THEN {} ELSE {ex}

\* the coefficients of ex as a polynomial in its generators: 1 for a
\* generator, ex itself for a number
coeff_of(ex) == IF gens_of(ex) = {} THEN ex ELSE SympyOne

\* num/den for the numbers num and den
sympy_div(num, den) ==
    IF num.type = "Real" THEN num ELSE sympy_rat(num.p, den.p)

\* gen.is_number
is_number(gen) == gen.type # "Symbol"

\* _construct_composite; the generators are the one symbol y
_construct_composite(rep, field) ==
    LET nd == [i \in 1..Len(rep) |-> as_numer_denom(rep[i])]
        numgens == UNION {gens_of(nd[i][1]) : i \in 1..Len(rep)}
        dengens == UNION {gens_of(nd[i][2]) : i \in 1..Len(rep)}
        fractions == dengens # {}
        gens == <<1>>
    IN  IF \E gen \in numgens \cup dengens : is_number(gen)
        THEN [exc |-> "None", K |-> NoDom, rep |-> <<>>]
        ELSE IF ~field /\ ~fractions
        THEN IF \A i \in 1..Len(rep) : nd[i][2] = SympyOne
             THEN Constructed(PolynomialRing(Ground(ZZ.kind), gens),
                      [i \in 1..Len(rep) |-> from_sympy(ZZ.kind, coeff_of(nd[i][1]))])
             ELSE Constructed(PolynomialRing(Ground(QQ.kind), gens),
                      [i \in 1..Len(rep) |->
                          from_sympy(QQ.kind,
                              IF gens_of(nd[i][1]) # {}
                              THEN sympy_div(coeff_of(nd[i][1]), nd[i][2])
                              ELSE sympy_div(nd[i][1], nd[i][2]))])
        ELSE Constructed(FractionField(Ground(ZZ.kind), gens),
                 [i \in 1..(2 * Len(rep)) |->
                     from_sympy(ZZ.kind, coeff_of(nd[(i + 1) \div 2][2 - (i % 2)]))])

\* _construct_expression
_construct_expression(rep) ==
    Constructed(EX, [i \in 1..Len(rep) |-> from_sympy(EX.kind, rep[i])])

_construct_domain(rep, extension, field) ==
    LET simple == _construct_simple(rep, extension, field)
    IN  IF simple.exc # "None"
        THEN IF simple.exc # "False" THEN simple ELSE _construct_expression(rep)
        ELSE LET composite == _construct_composite(rep, field)
             IN  IF composite.exc # "None" THEN composite
                 ELSE _construct_expression(rep)

\* the sampled coefficients: 1, 2, 1/2, 0.5, 2.0, sqrt(2), y and 1/y
SympyCoeffs ==
    {sympy_int(1), sympy_int(2), sympy_rat(1, 2), E("Real", 1, 2), E("Real", 2, 1),
     E("Algebraic", 2, 1), E("Symbol", 0, 1), E("Inverse", 0, 1)}

CoeffLists == UNION {[1..n -> SympyCoeffs] : n \in 1..MaxCoeffs}

(***************************************************************************)
(* The facade: Poly.integrate.  Only the ground domain of the polynomial   *)
(* is followed: K is the domain of f.rep, and the result is the domain of  *)
(* the integral or the exception raised.                                   *)
(***************************************************************************)
\* K.get_field(): IntegerRing returns QQ, PolynomialRing the fraction field
\* in the same generators, a subclass of Field returns self; RealAlgebra
\* and its subclasses raise DomainError
get_field(K) ==
    IF is_ZZ(K) THEN [exc |-> "none", K |-> QQ]
    ELSE IF K.kind \in RealKinds THEN [exc |-> "DomainError", K |-> NoDom]
    ELSE IF K.kind = "PolynomialRing"
    THEN [exc |-> "none", K |-> FractionField(K.dom, K.gens)]
    ELSE [exc |-> "none", K |-> K]

\* f.to_field() of DMP: f.convert(f.dom.get_field()) is a polynomial over
\* the field
DMP_to_field(K) == get_field(K)

\* Poly.to_field catches AttributeError alone
Poly_to_field(K) == DMP_to_field(K)

\* f.integrate(auto=auto): DMP.integrate keeps the domain of f.rep
Poly_integrate(K, auto) == IF auto THEN Poly_to_field(K) ELSE [exc |-> "none", K |-> K]

\* the sampled ground domains: the integer rings, the rational fields, the
\* real domains, QQ<a>, EX, ZZ[x] and ZZ(x)
IntegrateDomains ==
    {Base(k) : k \in IntegerKinds \cup RationalKinds \cup RealKinds}
        \cup {AlgebraicField(1), EX,
              PolynomialRing(Ground(ZZ.kind), <<1>>), FractionField(Ground(ZZ.kind), <<1>>)}

(***************************************************************************)
(* Max and Min.  An argument is the number c, [sym |-> "", c |-> c], or a  *)
(* symbol: x without assumptions, p positive, n negative, nn nonnegative.  *)
(***************************************************************************)
\* the number of arguments of a sampled call is 1..MaxArgs
MaxArgs == 3

Num(c) == [sym |-> "", c |-> c]

Sym(s) == [sym |-> s, c |-> 0]

is_Number(v) == v.sym = ""

\* v.is_positive, v.is_negative and v.is_nonnegative when they are True
known_positive(v) == IF is_Number(v) THEN v.c > 0 ELSE v.sym = "p"

known_negative(v) == IF is_Number(v) THEN v.c < 0 ELSE v.sym = "n"

known_nonnegative(v) == IF is_Number(v) THEN v.c >= 0 ELSE v.sym \in {"p", "nn"}

\* x > y: True or False when the assumptions decide it, and a relational
\* object, "Rel", when they do not
gt(x, y) ==
    IF is_Number(x) /\ is_Number(y) THEN (IF x.c > y.c THEN "True" ELSE "False")
    ELSE IF x = y THEN "False"
    ELSE IF \/ known_positive(x) /\ ~is_Number(x) /\ is_Number(y) /\ y.c <= 0
            \/ known_positive(x) /\ known_negative(y)
            \/ known_nonnegative(x) /\ known_negative(y)
    THEN "True"
    ELSE IF \/ known_negative(x) /\ known_nonnegative(y)
            \/ is_Number(x) /\ x.c <= 0 /\ known_nonnegative(y)
    THEN "False"
    ELSE "Rel"

\* x < y
lt(x, y) == gt(y, x)

isinstance_bool(r) == r \in {"True", "False"}

Max_is_connected(x, y) ==
    IF x = y \/ isinstance_bool(gt(x, y)) \/ isinstance_bool(lt(x, y)) THEN TRUE
    ELSE IF is_Number(x) /\ is_Number(y) THEN TRUE
    ELSE FALSE

\* is_greater of Max with rel = gt and is_less of Min with rel = lt
is_rel(x, y, rel(_, _)) ==
    IF x = y THEN FALSE
    ELSE IF is_Number(x) /\ is_Number(y) /\ rel(x, y) = "True" THEN TRUE
    ELSE IF isinstance_bool(rel(x, y)) THEN rel(x, y) = "True"
    ELSE IF isinstance_bool(rel(y, x)) THEN rel(y, x) # "True"
    ELSE FALSE

Max_is_greater(x, y) == is_rel(x, y, gt)

Min_is_less(x, y) == is_rel(x, y, lt)

\* cls.is_greater: Min overrides it by is_less
is_greater(cls, x, y) == IF cls = "Min" THEN Min_is_less(x, y) ELSE Max_is_greater(x, y)

\* the for loop of can_be_removed from values[j] on; the values of the list
\* are distinct objects, so that id(v) <> id(v2) is v # v2
RECURSIVE can_be_removed_loop(_, _, _, _, _)
can_be_removed_loop(cls, v, values, j, res) ==
    IF j > Len(values) THEN res
    ELSE IF values[j] # v /\ Max_is_connected(v, values[j])
    THEN IF is_greater(cls, v, values[j]) THEN FALSE
         ELSE can_be_removed_loop(cls, v, values, j + 1, TRUE)
    ELSE can_be_removed_loop(cls, v, values, j + 1, res)

Max_can_be_removed_isolated(cls, v, values) == can_be_removed_loop(cls, v, values, 1, TRUE)

Max_can_be_removed(cls, v, values) == can_be_removed_loop(cls, v, values, 1, FALSE)

\* values[:i] + values[i+1:]
Without(values, i) == [k \in 1..(Len(values) - 1) |-> IF k < i THEN values[k] ELSE values[k + 1]]

\* the while loop of eval: the first value that can be removed is removed
\* and the scan starts again
RECURSIVE remove_loop(_, _)
remove_loop(cls, values) ==
    IF \E i \in 1..Len(values) : Max_can_be_removed(cls, values[i], values)
    THEN remove_loop(cls,
             Without(values, CHOOSE i \in 1..Len(values) :
                 /\ Max_can_be_removed(cls, values[i], values)
                 /\ \A k \in 1..(i - 1) : ~Max_can_be_removed(cls, values[k], values)))
    ELSE values

\* the lists that list(set(values)) can be: the distinct values in any order
remove_duplicates(values) ==
    {s \in UNION {[1..k -> SeqSet(values)] : k \in 1..Len(values)} :
        /\ SeqSet(s) = SeqSet(values)
        /\ \A i, j \in 1..Len(s) : s[i] = s[j] => i = j}

\* what eval leaves: one of the values, or the call with args, unevaluated
Evaluated(v) == [exc |-> "none", evaluated |-> TRUE, args |-> <<v>>]

Unevaluated(values) == [exc |-> "none", evaluated |-> FALSE, args |-> values]

\* cls.eval(*values), unique the list that remove_duplicates returned
Max_eval(cls, values, unique) ==
    IF Len(values) = 0 THEN [exc |-> "ValueError", evaluated |-> FALSE, args |-> <<>>]
    ELSE IF Len(values) = 1 THEN Evaluated(values[1])
    ELSE IF Len(values) = 2
    THEN IF Max_is_connected(values[1], values[2])
         THEN IF values[1] = values[2] THEN Evaluated(values[1])
              ELSE IF is_greater(cls, values[1], values[2]) THEN Evaluated(values[1])
              ELSE IF is_greater(cls, values[2], values[1]) THEN Evaluated(values[2])
              ELSE Unevaluated(values)
         ELSE Unevaluated(values)
    ELSE Only({IF Len(left) = 1 THEN Evaluated(left[1]) ELSE Unevaluated(left) :
                  left \in {remove_loop(cls, unique)}})

\* the sampled arguments: -1, 0, 2, x, p, n and nn
MaxValues == {Num(-1), Num(0), Num(2), Sym("x"), Sym("p"), Sym("n"), Sym("nn")}

ArgLists == UNION {[1..k -> MaxValues] : k \in 0..MaxArgs}

(***************************************************************************)
(* And and Or.  An argument is a Python bool, a symbol, the application    *)
(* sin(x) of a function, or And(x, y) or Or(x, y); key is its place in the *)
(* order that sorted uses.                                                 *)
(***************************************************************************)
Bool(b) == [kind |-> "bool", key |-> IF b THEN 1 ELSE 0, args |-> <<>>]

BoolSymbols == {[kind |-> "Symbol", key |-> k, args |-> <<>>] : k \in {2, 3}}

Applied == [kind |-> "Function", key |-> 4, args |-> <<>>]

Nested(cls) ==
    [kind |-> cls, key |-> IF cls = "And" THEN 5 ELSE 6,
     args |-> <<CHOOSE s \in BoolSymbols : s.key = 2, CHOOSE s \in BoolSymbols : s.key = 3>>]

BoolArgs == {Bool(TRUE), Bool(FALSE), Applied, Nested("And"), Nested("Or")} \cup BoolSymbols

BoolArgLists == UNION {[1..k -> BoolArgs] : k \in 0..MaxArgs}

\* hasattr(arg, 'eval') and (not isinstance(arg, BooleanFunction))
has_eval(arg) == arg.kind = "Function"

\* arg.eval(*arg.args) of sin(x): None, the function does not evaluate
NoneArg == [kind |-> "None", key |-> 0, args |-> <<>>]

Function_eval(arg) == NoneArg

\* flatten(out_args, cls=cls): the arguments of an instance of cls take the
\* place of the instance
RECURSIVE flatten(_, _)
flatten(out_args, cls) ==
    IF out_args = <<>> THEN <<>>
    ELSE (IF Head(out_args).kind = cls THEN Head(out_args).args ELSE <<Head(out_args)>>)
             \o flatten(Tail(out_args), cls)

\* sorted(l)
RECURSIVE sorted_list(_)
sorted_list(l) ==
    IF l = <<>> THEN <<>>
    ELSE LET least == CHOOSE i \in 1..Len(l) :
                          /\ \A j \in 1..Len(l) : l[i].key <= l[j].key
                          /\ \A j \in 1..(i - 1) : l[j].key # l[i].key
         IN  <<l[least]>> \o sorted_list([k \in 1..(Len(l) - 1) |->
                                             IF k < least THEN l[k] ELSE l[k + 1]])

\* what eval returns: None, a bool, one of the arguments, or the new
\* instance Basic.__new__(cls, *sargs)
EvalNone == [kind |-> "None", b |-> FALSE, args |-> <<>>]

EvalBool(b) == [kind |-> "bool", b |-> b, args |-> <<>>]

\* the statements of eval after the for loop
eval_tail(cls, out_args, identity) ==
    IF Len(out_args) = 0 THEN EvalBool(identity)
    ELSE IF Len(out_args) = 1 THEN [kind |-> "arg", b |-> FALSE, args |-> out_args]
    ELSE [kind |-> cls, b |-> FALSE, args |-> sorted_list(flatten(out_args, cls))]

\* the for loop of And.eval from args[i] on
RECURSIVE And_eval_loop(_, _, _)
And_eval_loop(args_, i, out_args) ==
    IF i > Len(args_) THEN eval_tail("And", out_args, TRUE)
    ELSE LET arg == IF has_eval(args_[i]) THEN Function_eval(args_[i]) ELSE args_[i]
         IN  IF arg = NoneArg THEN EvalNone
             ELSE IF arg.kind = "bool"
             THEN IF arg = Bool(FALSE) THEN EvalBool(FALSE)
                  ELSE And_eval_loop(args_, i + 1, out_args)
             ELSE And_eval_loop(args_, i + 1, Append(out_args, arg))

And_eval(args_) == And_eval_loop(args_, 1, <<>>)

\* the for loop of Or.eval from args[i] on
RECURSIVE Or_eval_loop(_, _, _)
Or_eval_loop(args_, i, out_args) ==
    IF i > Len(args_) THEN eval_tail("Or", out_args, FALSE)
    ELSE IF args_[i].kind = "bool"
    THEN IF args_[i] = Bool(TRUE) THEN EvalBool(TRUE)
         ELSE Or_eval_loop(args_, i + 1, out_args)
    ELSE Or_eval_loop(args_, i + 1, Append(out_args, args_[i]))

Or_eval(args_) == Or_eval_loop(args_, 1, <<>>)

(***************************************************************************)
(* Relational.union.  A relational is its class, lhs and rhs; a side is a  *)
(* symbol without assumptions or a number.                                 *)
(***************************************************************************)
Relation(cls, lhs, rhs) == [cls |-> cls, lhs |-> lhs, rhs |-> rhs]

NoRelation == Relation("None", Num(0), Num(0))

\* what _union returns or raises: True or False, a relational, or the
\* exception
UnionBool(b) == [kind |-> "bool", b |-> b, rel |-> NoRelation]

UnionRel(cls, lhs, rhs) == [kind |-> "rel", b |-> FALSE, rel |-> Relation(cls, lhs, rhs)]

UnionRaised(e) == [kind |-> e, b |-> FALSE, rel |-> NoRelation]

\* (u - v).is_positive: known for two numbers alone
diff_is_positive(u, v) == is_Number(u) /\ is_Number(v) /\ u.c > v.c

\* self.new == Inequality and other.new == Inequality: new is a bound method
\* of Basic, which equals no class
new_is_class(r, cls) == FALSE

same_sides(r, other) ==
    \/ r.lhs = other.lhs /\ r.rhs = other.rhs
    \/ r.lhs = other.rhs /\ r.rhs = other.lhs

Unequality__union(self, other) ==
    IF /\ other.cls \in {"Unequality", "StrictInequality", "Inequality"}
       /\ same_sides(self, other)
    THEN UnionRel(self.cls, self.lhs, self.rhs)
    ELSE UnionBool(TRUE)

Inequality__union(self, other) ==
    LET a == self.lhs
        b == self.rhs
        c == other.lhs
        d == other.rhs
        P(u, v) == diff_is_positive(u, v)
        NoUnion == UnionRaised("NoUnionError")
    IN  IF a = c
        THEN IF P(d, a) THEN UnionBool(TRUE)
             ELSE IF a = d
             THEN IF new_is_class(other, "Inequality") THEN UnionBool(TRUE)
                  ELSE IF b = d \/ b = c
                  THEN IF new_is_class(self, "Inequality") THEN UnionBool(TRUE)
                       ELSE UnionBool(FALSE)
                  ELSE IF P(c, b) THEN UnionBool(FALSE)
                  ELSE IF P(b, c) \/ P(b, d) THEN UnionBool(TRUE)
                  ELSE UnionRel(self.cls, a, b)
             ELSE IF b = c
             THEN IF new_is_class(self, "Inequality") THEN UnionBool(TRUE)
                  ELSE IF b = d
                  THEN IF new_is_class(self, "Inequality") \/ other.cls = "Inequality"
                       THEN UnionBool(TRUE) ELSE UnionBool(FALSE)
                  ELSE IF P(d, b) THEN UnionBool(FALSE)
                  ELSE IF P(b, d) THEN UnionBool(FALSE)
                  ELSE UnionRel(other.cls, a, d)
             ELSE IF b = d
             THEN IF new_is_class(self, other.cls) THEN UnionRel(self.cls, a, d)
                  ELSE UnionRel("Inequality", a, d)
             ELSE IF P(d, b) THEN UnionRel(other.cls, a, d)
             ELSE IF P(b, d) THEN UnionRel(self.cls, a, b)
             ELSE IF P(a, d) THEN UnionBool(TRUE)
             ELSE IF P(c, b) THEN UnionRel(other.cls, c, d)
             ELSE IF P(b, c) THEN UnionBool(TRUE)
             ELSE NoUnion
        ELSE IF b = c
        THEN IF a = d
             THEN IF new_is_class(self, "Inequality") \/ other.cls = "Inequality"
                  THEN UnionBool(TRUE)
                  ELSE IF a = c THEN UnionBool(FALSE)
                  ELSE UnionRel("Unequality", c, d)
             ELSE IF b = d
             THEN IF new_is_class(other, "Inequality") THEN UnionBool(TRUE)
                  ELSE UnionRel(self.cls, a, d)
             ELSE IF P(d, a) THEN UnionBool(TRUE)
             ELSE IF P(d, b) THEN UnionBool(TRUE)
             ELSE IF P(b, d) THEN UnionRaised("AttributeError")
             ELSE NoUnion
        ELSE IF b = d
        THEN IF P(b, c) THEN UnionBool(TRUE)
             ELSE IF P(c, b) THEN UnionRel(self.cls, a, b)
             ELSE IF P(c, a) THEN UnionRel(self.cls, a, b)
             ELSE IF P(a, c) THEN UnionRel(other.cls, c, b)
             ELSE IF P(a, d) THEN UnionRel(other.cls, c, b)
             ELSE IF P(d, a) THEN UnionBool(TRUE)
             ELSE IF a = d
             THEN IF new_is_class(self, "Inequality") THEN UnionBool(TRUE)
                  ELSE UnionRel(other.cls, c, b)
             ELSE NoUnion
        ELSE IF a = d
        THEN IF P(b, c) THEN UnionBool(TRUE)
             ELSE IF P(b, d) THEN UnionBool(TRUE)
             ELSE IF P(d, b) THEN UnionRel(other.cls, c, b)
             ELSE IF P(a, c) THEN UnionBool(TRUE)
             ELSE NoUnion
        ELSE NoUnion

\* self.union(other): the Or of the two when _union raises NoUnionError
Relational_union(self, other) ==
    LET r == IF self.cls = "Inequality" THEN Inequality__union(self, other)
             ELSE Unequality__union(self, other)
    IN  IF r.kind = "NoUnionError" THEN [kind |-> "Or", b |-> FALSE, rel |-> NoRelation]
        ELSE r

\* the sampled sides: x, y, 1 and 2
Sides == {Sym("x"), Sym("y"), Num(1), Num(2)}

RelationClasses == {"Equality", "Unequality", "StrictInequality", "Inequality"}

Relations(classes) == {Relation(cls, l, r) : cls \in classes, l \in Sides, r \in Sides}

(***************************************************************************)
(* The facade: Poly(rep, x) for a dict or a list rep, without modulus.     *)
(* container is the list of the values of the caller's dict, in the order  *)
(* of iteration, or the caller's list; the result holds what the           *)
(* container is after the call.                                            *)
(***************************************************************************)
\* sympify(coeff): a Python int becomes an Integer
sympify(coeff) == IF coeff.type = "int" THEN sympy_int(coeff.p) ELSE coeff

Reversed(l) == [i \in 1..Len(l) |-> l[Len(l) + 1 - i]]

\* the for loop of _init_poly_from_dict, 'dict_rep[k] = domain.convert(v)',
\* from item i on: an exception leaves the items before i converted
RECURSIVE convert_in_place(_, _, _)
convert_in_place(dict_rep, domain, i) ==
    IF i > Len(dict_rep) THEN [exc |-> "none", container |-> dict_rep]
    ELSE Only({IF c.type \in Exceptions THEN [exc |-> c.type, container |-> dict_rep]
               ELSE convert_in_place([dict_rep EXCEPT ![i] = c], domain, i + 1) :
                  c \in {convert(domain.kind, dict_rep[i], NoSource)}})

\* _construct_domain(dict_rep, **args) works on 'rep = dict(rep)', a copy
construct_on_copy(dict_rep) ==
    [exc |-> _construct_domain([i \in 1..Len(dict_rep) |-> sympify(dict_rep[i])],
                               FALSE, FALSE).exc,
     container |-> dict_rep]

\* domain is NoDom when the caller gives none
_init_poly_from_dict(dict_rep, domain) ==
    IF domain # NoDom THEN convert_in_place(dict_rep, domain, 1)
    ELSE construct_on_copy(dict_rep)

\* map(domain.convert, list_rep) builds a new list
_init_poly_from_list(list_rep, domain) ==
    IF domain # NoDom
    THEN [exc |-> FirstRaised([i \in 1..Len(list_rep) |->
                                  convert(domain.kind, list_rep[i], NoSource)]),
          container |-> list_rep]
    ELSE [exc |-> construct_on_copy(Reversed(list_rep)).exc, container |-> list_rep]

\* the sampled values of a container: the Python int 1 and the sampled
\* numbers and symbol of SymPy
ContainerValues == {E("int", 1, 1)} \cup {v \in SympyCoeffs : isinstance_Basic(v)}

Containers == UNION {[1..n -> ContainerValues] : n \in 1..MaxCoeffs}

\* the domain argument: none, ZZ, QQ, RR or EX
DomainArgs == {NoDom, ZZ, QQ, RR, EX}

(***************************************************************************)
(* The state machine.                                                      *)
(***************************************************************************)
\* the polynomials whose roots the threads ask for
RootPolys == {"x**2 - 1", "x**2 - 2"}

Threads == 1..NumThreads

\* the value of zeros before its assignment
NoList == [f |-> "", by |-> 0]

Init ==
    /\ call = "none"
    /\ args = <<>>
    /\ result = <<>>
    /\ _exact_roots_cache = <<>>
    /\ threads = [t \in Threads |-> [pc |-> "idle", f |-> "", zeros |-> NoList]]

\* K1.convert(a, K0) for an element a of K0
Convert ==
    /\ call = "none"
    /\ \E K1 \in ConvertTargets, K0 \in ConvertSources :
        \E a \in Elements(K0) :
            /\ call' = "convert"
            /\ args' = [K1 |-> K1, a |-> a, K0 |-> K0]
            /\ result' = convert(K1, a, K0)
    /\ UNCHANGED shared

\* K1.convert(a)
ConvertUnsourced ==
    /\ call = "none"
    /\ \E K1 \in ConvertTargets :
        \E a \in Elements(K1) \cup Unsourced :
            /\ call' = "convert"
            /\ args' = [K1 |-> K1, a |-> a, K0 |-> NoSource]
            /\ result' = convert(K1, a, NoSource)
    /\ UNCHANGED shared

\* K0.unify(K1, gens)
Unify ==
    /\ call = "none"
    /\ \E K0 \in Domains, K1 \in Domains, gens \in Hints :
        /\ call' = "unify"
        /\ args' = [K0 |-> K0, K1 |-> K1, gens |-> gens]
        /\ result' = unify(K0, K1, gens)
    /\ UNCHANGED shared

\* K0.unify(K1).unify(K2): an exception of the first call ends the expression
UnifyAgain ==
    /\ call = "unify"
    /\ args.gens = None
    /\ \E K2 \in Domains :
        /\ call' = "unify.unify"
        /\ args' = [K0 |-> args.K0, K1 |-> args.K1, K2 |-> K2]
        /\ result' = IF result.exc # "none" THEN result
                     ELSE unify(result.val, K2, None)
    /\ UNCHANGED shared

\* f.unify(g)
PolyUnify ==
    /\ call = "none"
    /\ \E f \in Polys, g \in Polys :
        \E gens \in Orderings(SeqSet(f.gens) \cup SeqSet(g.gens)) :
            /\ call' = "Poly.unify"
            /\ args' = [f |-> f, g |-> g, gens |-> gens]
            /\ result' = Poly_unify(f, g, gens)
    /\ UNCHANGED shared

\* f.add(g)
PolyAdd ==
    /\ call = "none"
    /\ \E f \in Polys, g \in Polys :
        \E gens \in Orderings(SeqSet(f.gens) \cup SeqSet(g.gens)) :
            /\ call' = "Poly.add"
            /\ args' = [f |-> f, g |-> g, gens |-> gens]
            /\ result' = Poly_add(f, g, gens)
    /\ UNCHANGED shared

\* K.exquo(a, b)
Exquo ==
    /\ call = "none"
    /\ \E K \in DivisionKinds :
        \E a \in Elements(K), b \in Elements(K) :
            /\ call' = "exquo"
            /\ args' = [K |-> K, a |-> a, b |-> b]
            /\ result' = exquo(K, a, b)
    /\ UNCHANGED shared

\* K.quo(a, b)
Quo ==
    /\ call = "none"
    /\ \E K \in DivisionKinds :
        \E a \in Elements(K), b \in Elements(K) :
            /\ call' = "quo"
            /\ args' = [K |-> K, a |-> a, b |-> b]
            /\ result' = quo(K, a, b)
    /\ UNCHANGED shared

\* K.invert(a, b)
Invert ==
    /\ call = "none"
    /\ \E K \in DivisionKinds :
        \E a \in Elements(K), b \in Elements(K) :
            /\ call' = "invert"
            /\ args' = [K |-> K, a |-> a, b |-> b]
            /\ result' = invert(K, a, b)
    /\ UNCHANGED shared

\* K.gcd(a, b)
Gcd ==
    /\ call = "none"
    /\ \E K \in GcdKinds :
        \E a \in Elements(K), b \in Elements(K) :
            /\ call' = "gcd"
            /\ args' = [K |-> K, a |-> a, b |-> b]
            /\ result' = Algebra_gcd(K, a, b)
    /\ UNCHANGED shared

\* f.add(g), f.sub(g) and f.mul(g) for a DMP f
DMPOp ==
    /\ call = "none"
    /\ \E K0 \in DenseDomains, K1 \in DenseDomains, op \in {"add", "sub", "mul"} :
        \E f \in DMPs(K0), g \in DMPs(K1) \cup FracOperands :
            /\ call' = "DMP.op"
            /\ args' = [op |-> op, heap |-> <<f, g>>]
            /\ result' = DMP_op(<<f, g>>, op, 1, 2)
    /\ UNCHANGED shared

\* DMF(rep, dom, lev)
DMFCreate ==
    /\ call = "none"
    /\ \E K \in DenseDomains :
        \E rep \in FracReps(K) :
            \E lev \in LevArgs(rep) :
                /\ call' = "DMF"
                /\ args' = [op |-> "init", heap |-> <<>>,
                            rep |-> rep, dom |-> K, lev |-> lev]
                /\ result' = DMF_init(<<>>, rep, K, lev)
    /\ UNCHANGED shared

\* DMF.new(rep, dom, lev)
DMFNew ==
    /\ call = "none"
    /\ \E K \in DenseDomains :
        \E rep \in FracReps(K) :
            \E lev \in LevArgs(rep) :
                /\ call' = "DMF.new"
                /\ args' = [op |-> "new", heap |-> <<>>,
                            rep |-> rep, dom |-> K, lev |-> lev]
                /\ result' = DMF_new(<<>>, rep, K, lev)
    /\ UNCHANGED shared

\* the fraction that the last call returned
Returned == result.heap[result.ret]

\* r = DMF(...), r = r.add(g), ...: the caller keeps the fraction that the
\* call returned, when it is one of the sampled size; ctor tells that the
\* constructor DMF(rep, dom, lev) built it
Keep ==
    /\ call \in {"DMF", "DMF.new", "DMF.op", "DMF.unary", "DMF.rebuild"}
    /\ result.exc = "none"
    /\ InWindow(Returned)
    /\ call' = "r"
    /\ args' = [ctor |-> call \in {"DMF", "DMF.rebuild"}]
    /\ result' = [exc |-> "none", ret |-> 1, heap |-> <<Returned>>]
    /\ UNCHANGED shared

\* r.add(g), r.sub(g), r.mul(g) and r.quo(g)
DMFOp ==
    /\ call = "r"
    /\ \E op \in BinaryOps, g \in FracOperands \cup PolyOperands :
        /\ call' = "DMF.op"
        /\ args' = [op |-> op, heap |-> <<Returned, g>>, ctor |-> args.ctor]
        /\ result' = DMF_op(<<Returned, g>>, op, 1, 2)
    /\ UNCHANGED shared

\* r.neg(), r.pow(n), r.invert() and r.cancel()
DMFUnary ==
    /\ call = "r"
    /\ \E o \in {[name |-> m, n |-> 0] : m \in {"neg", "invert", "cancel"}}
                  \cup {[name |-> "pow", n |-> n] : n \in Powers} :
        /\ call' = "DMF.unary"
        /\ args' = [op |-> o.name, n |-> o.n, heap |-> <<Returned>>, ctor |-> args.ctor]
        /\ result' = CASE o.name = "neg" -> DMF_neg(<<Returned>>, 1)
                       [] o.name = "invert" -> DMF_invert(<<Returned>>, 1)
                       [] o.name = "cancel" -> DMF_cancel(<<Returned>>, 1)
                       [] o.name = "pow" -> DMF_pow(<<Returned>>, 1, o.n)
    /\ UNCHANGED shared

\* DMF((r.num, r.den), r.dom, r.lev)
DMFRebuild ==
    /\ call = "r"
    /\ call' = "DMF.rebuild"
    /\ args' = [op |-> "rebuild", heap |-> <<Returned>>, ctor |-> args.ctor]
    /\ result' = DMF_init(<<Returned>>, <<Returned.num, Returned.den>>,
                          Returned.dom, Returned.lev)
    /\ UNCHANGED shared

\* f.add(g), f.sub(g), f.mul(g), f.quo(g), f.div(g) and f.rem(g) for an
\* ANP f
ANPOp ==
    /\ call = "none"
    /\ \E op \in ANPOps, f \in ANPs, other \in BOOLEAN :
        \E g \in IF other THEN PolyOperands ELSE ANPs :
            /\ call' = "ANP.op"
            /\ args' = [op |-> op, heap |-> <<f, g>>]
            /\ result' = ANP_binary(<<f, g>>, op, 1, 2)
    /\ UNCHANGED shared

\* f.neg() for an ANP f
ANPNeg ==
    /\ call = "none"
    /\ \E f \in ANPs :
        /\ call' = "ANP.neg"
        /\ args' = [op |-> "neg", heap |-> <<f>>]
        /\ result' = ANP_neg(<<f>>, 1)
    /\ UNCHANGED shared

\* ANP(rep, mod, dom) for two lists
ANPCreate ==
    /\ call = "none"
    /\ \E rep \in Lists(Coeffs(QQ)), mod \in Moduli(QQ) :
        /\ call' = "ANP"
        /\ args' = [op |-> "init", heap |-> <<>>, rep |-> rep, mod |-> mod]
        /\ result' = ANP_init(<<>>, rep, mod, QQ)
    /\ UNCHANGED shared

\* f.pow(n) for an ANP f
ANPPow ==
    /\ call = "none"
    /\ \E f \in ANPs, n \in ANPPowers :
        /\ call' = "ANP.pow"
        /\ args' = [op |-> "pow", n |-> n, heap |-> <<f>>]
        /\ result' = ANP_pow(<<f>>, 1, n)
    /\ UNCHANGED shared

\* RR.limit_denom(n, d, max_denom=m) for integers n, d, m >= 1
LimitDenom ==
    /\ call = "none"
    /\ \E n \in 1..LimNum, d \in 1..LimDen, m \in 1..LimMax :
        /\ call' = "limit_denom"
        /\ args' = [n |-> n, d |-> d, max_denom |-> m]
        /\ result' = limit_denom(n, d, m)
    /\ UNCHANGED shared

\* _construct_domain(rep, extension=..., field=...) for the coefficients of a
\* dict, yielded in the order of the list rep
ConstructDomain ==
    /\ call = "none"
    /\ \E rep \in CoeffLists, extension \in BOOLEAN, field \in BOOLEAN :
        /\ call' = "_construct_domain"
        /\ args' = [rep |-> rep, extension |-> extension, field |-> field]
        /\ result' = _construct_domain(rep, extension, field)
    /\ UNCHANGED shared

\* f.integrate(auto=auto) for a Poly f over K
PolyIntegrate ==
    /\ call = "none"
    /\ \E K \in IntegrateDomains, auto \in BOOLEAN :
        /\ call' = "Poly.integrate"
        /\ args' = [K |-> K, auto |-> auto]
        /\ result' = Poly_integrate(K, auto)
    /\ UNCHANGED shared

(***************************************************************************)
(* Threads calling _exact_roots.  _exact_roots_cache is the dict of        *)
(* polyroots.py, bound once when the module is imported and shared by      *)
(* every thread; no statement of _exact_roots takes a lock.  A thread      *)
(* executes one statement of _exact_roots at a step.                       *)
(***************************************************************************)
\* f in _exact_roots_cache
Cached(f) == f \in DOMAIN _exact_roots_cache

\* t calls _exact_roots(f)
RootsCall(t) ==
    /\ call \in {"none", "_exact_roots"}
    /\ threads[t].pc = "idle"
    /\ \E f \in RootPolys :
        threads' = [threads EXCEPT ![t] = [pc |-> "test", f |-> f, zeros |-> NoList]]
    /\ call' = "_exact_roots"
    /\ UNCHANGED <<args, result, _exact_roots_cache>>

\* if f in _exact_roots_cache
RootsTest(t) ==
    /\ threads[t].pc = "test"
    /\ threads' = [threads EXCEPT ![t].pc = IF Cached(threads[t].f) THEN "hit" ELSE "miss"]
    /\ UNCHANGED <<call, args, result, _exact_roots_cache>>

\* zeros = _exact_roots_cache[f]
RootsHit(t) ==
    /\ threads[t].pc = "hit"
    /\ threads' = [threads EXCEPT ![t].pc = "return",
                                  ![t].zeros = _exact_roots_cache[threads[t].f]]
    /\ UNCHANGED <<call, args, result, _exact_roots_cache>>

\* exact, zeros = roots(f), [] and the for loop: a new list, built by t
RootsCompute(t) ==
    /\ threads[t].pc = "miss"
    /\ threads' = [threads EXCEPT ![t].pc = "store",
                                  ![t].zeros = [f |-> threads[t].f, by |-> t]]
    /\ UNCHANGED <<call, args, result, _exact_roots_cache>>

\* _exact_roots_cache[f] = zeros
RootsStore(t) ==
    /\ threads[t].pc = "store"
    /\ _exact_roots_cache' =
           [g \in DOMAIN _exact_roots_cache \cup {threads[t].f} |->
               IF g = threads[t].f THEN threads[t].zeros ELSE _exact_roots_cache[g]]
    /\ threads' = [threads EXCEPT ![t].pc = "return"]
    /\ UNCHANGED <<call, args, result>>

\* return zeros
RootsReturn(t) ==
    /\ threads[t].pc = "return"
    /\ threads' = [threads EXCEPT ![t].pc = "idle"]
    /\ UNCHANGED <<call, args, result, _exact_roots_cache>>

\* Max(*values) and Min(*values); the order of list(set(values)) is any
MaxMin ==
    /\ call = "none"
    /\ \E cls \in {"Max", "Min"}, values \in ArgLists :
        \E unique \in IF values = <<>> THEN {<<>>} ELSE remove_duplicates(values) :
            /\ call' = cls
            /\ args' = [values |-> values]
            /\ result' = Max_eval(cls, values, unique)
    /\ UNCHANGED shared

\* And.eval(*args) and Or.eval(*args)
AndOr ==
    /\ call = "none"
    /\ \E cls \in {"And", "Or"}, args_ \in BoolArgLists :
        /\ call' = cls
        /\ args' = [values |-> args_]
        /\ result' = IF cls = "And" THEN And_eval(args_) ELSE Or_eval(args_)
    /\ UNCHANGED shared

\* self.union(other) for an Inequality or an Unequality self
Union ==
    /\ call = "none"
    /\ \E self \in Relations({"Inequality", "Unequality"}), other \in Relations(RelationClasses) :
        /\ call' = "union"
        /\ args' = [self |-> self, other |-> other]
        /\ result' = Relational_union(self, other)
    /\ UNCHANGED shared

\* Poly(container, x, domain=domain) for a dict or a list container
PolyFromContainer ==
    /\ call = "none"
    /\ \E type \in {"dict", "list"}, container \in Containers, domain \in DomainArgs :
        /\ call' = "Poly"
        /\ args' = [type |-> type, container |-> container, domain |-> domain]
        /\ result' = IF type = "dict" THEN _init_poly_from_dict(container, domain)
                     ELSE _init_poly_from_list(container, domain)
    /\ UNCHANGED shared

NextConvert == Convert \/ ConvertUnsourced

NextUnify == Unify \/ UnifyAgain

NextPoly == PolyUnify \/ PolyAdd

NextGround == Exquo \/ Quo \/ Invert \/ Gcd \/ LimitDenom

NextFacade == ConstructDomain \/ PolyIntegrate \/ PolyFromContainer

NextSymbolic == MaxMin \/ AndOr \/ Union

NextThreads ==
    \E t \in Threads :
        \/ RootsCall(t) \/ RootsTest(t) \/ RootsHit(t)
        \/ RootsCompute(t) \/ RootsStore(t) \/ RootsReturn(t)

NextDense ==
    \/ DMPOp \/ DMFCreate \/ DMFNew \/ Keep \/ DMFOp \/ DMFUnary \/ DMFRebuild
    \/ ANPOp \/ ANPNeg \/ ANPCreate \/ ANPPow

Next == NextConvert \/ NextUnify \/ NextPoly \/ NextGround \/ NextDense \/ NextFacade
        \/ NextSymbolic \/ NextThreads

SpecConvert == Init /\ [][NextConvert]_vars

SpecUnify == Init /\ [][NextUnify]_vars

SpecPoly == Init /\ [][NextPoly]_vars

SpecGround == Init /\ [][NextGround]_vars

SpecDense == Init /\ [][NextDense]_vars

SpecFacade == Init /\ [][NextFacade]_vars

SpecSymbolic == Init /\ [][NextSymbolic]_vars

SpecThreads == Init /\ [][NextThreads]_vars

Spec == Init /\ [][Next]_vars

(***************************************************************************)
(* Properties: conversion.                                                 *)
(***************************************************************************)
NonIntegralRational ==
    /\ call = "convert"
    /\ args.K1 \in IntegerKinds
    /\ args.a.q # 1
    /\ \/ args.K0 \in RationalKinds
       \/ args.K0 = NoSource /\ args.a.type = "Rational"

\* C1: converting a rational p/q in lowest terms with q # 1 into an integer
\* ring, from any rational field of the three backends or as a SymPy Rational
\* without a source domain, raises CoercionFailed and returns no integer.
NonIntegralRationalRefused == NonIntegralRational => result = Raised("CoercionFailed")

NonIntegralRationalRefusedWitness ==
    /\ NonIntegralRational
    /\ args.K1 = "ZZ_python"
    /\ args.K0 = "QQ_python"
    /\ args.a = E("Fraction", 1, 3)
    /\ result = Raised("CoercionFailed")

\* C2: K1.convert(a, K0) returns an element whose class is the element class
\* of K1, or raises CoercionFailed; it returns nothing of another class and
\* raises no other exception.
ConvertNativeOrCoercionFailed ==
    call = "convert" => result.type \in Native(args.K1) \cup {"CoercionFailed"}

(***************************************************************************)
(* Properties: unification.                                                *)
(***************************************************************************)
SameOutcome(r1, r2) ==
    IF r1.exc = "none" THEN r2.exc = "none" /\ r2.val = r1.val ELSE r2.exc # "none"

AsGround(D) == [kind |-> D.kind, ext |-> D.ext]

\* C3: unify(A, B) and unify(B, A), with the same gens argument, both fail
\* or return the same domain (class, ground domain, generators, extension).
UnifyCommutative ==
    call = "unify" => SameOutcome(result, unify(args.K1, args.K0, args.gens))

\* C4: unify(D, D) returns D, also with a gens argument that shares no
\* generator with D.
UnifyIdempotent ==
    (/\ call = "unify"
     /\ args.K0 = args.K1
     /\ args.gens # None => SeqSet(args.gens) \cap SeqSet(args.K0.gens) = {})
        => result = Return(args.K0)

\* the floating-point domains of the claims: RR, FF and CC
FloatingPoint(K) == K.kind \in {"RR_sympy", "RR_mpmath", "FF_float", "CC_complex"}

\* C5 as claimed: when one operand is non-exact (floating-point) and the
\* other is exact, the result is the non-exact operand, in either order.
NonExactWins ==
    call = "unify" =>
        /\ (FloatingPoint(args.K0) /\ ~FloatingPoint(args.K1))
              => result = Return(args.K0)
        /\ (~FloatingPoint(args.K0) /\ FloatingPoint(args.K1))
              => result = Return(args.K1)

\* C5 as amended: when one operand is non-exact (floating-point) and the
\* other is exact and is not the symbolic domain EX, and the gens argument
\* names no generator of a composite operand, the result is the non-exact
\* operand, in either order.
NonExactWinsOverExactButEX ==
    (call = "unify" /\ ~excluded(args.K0, args.K1, args.gens)) =>
        /\ (FloatingPoint(args.K0) /\ ~FloatingPoint(args.K1) /\ args.K1 # EX)
              => result = Return(args.K0)
        /\ (~FloatingPoint(args.K0) /\ args.K0 # EX /\ FloatingPoint(args.K1))
              => result = Return(args.K1)

NonExactWinsWitness ==
    /\ call = "unify"
    /\ is_Composite(args.K0)
    /\ args.K1 = FF
    /\ args.gens # None
    /\ result = Return(FF)

\* C6: the symbolic domain wins: unify(EX, D) and unify(D, EX) return EX for
\* every domain D (with a gens argument too, unless it names a generator of
\* a composite D).
SymbolicWins ==
    (/\ call = "unify"
     /\ args.K0 = EX \/ args.K1 = EX
     /\ ~excluded(args.K0, args.K1, args.gens))
        => result = Return(EX)

SymbolicWinsWitness ==
    /\ call = "unify"
    /\ FloatingPoint(args.K0)
    /\ args.K1 = EX
    /\ args.gens = None
    /\ result = Return(EX)

\* C7: for composite domains A over K0 in X and B over K1 in Y, unify(A, B)
\* is the composite domain over the sorted union of X and Y whose ground
\* domain is unify(K0, K1), a fraction field if A or B is one.
CompositeUnion ==
    (/\ call = "unify"
     /\ args.gens = None
     /\ is_Composite(args.K0)
     /\ is_Composite(args.K1))
        => result = Return(
              [kind |-> IF "FractionField" \in {args.K0.kind, args.K1.kind}
                        THEN "FractionField" ELSE "PolynomialRing",
               dom |-> AsGround(unify(Lift(args.K0.dom), Lift(args.K1.dom), None).val),
               gens |-> sorted(SeqSet(args.K0.gens) \cup SeqSet(args.K1.gens)),
               ext |-> 0])

\* C8: unify(unify(A, B), C) and unify(A, unify(B, C)) both fail or return
\* the same domain.
UnifyAssociative ==
    call = "unify.unify" =>
        LET inner == unify(args.K1, args.K2, None)
        IN  SameOutcome(result,
                        IF inner.exc # "none" THEN inner
                        ELSE unify(args.K0, inner.val, None))

\* C9: unifying two distinct algebraic extensions, or an algebraic field
\* with a composite domain, raises UnificationFailed naming both domains.
IncompatibleUnificationFailed ==
    (/\ call = "unify"
     /\ \/ is_Algebraic(args.K0) /\ is_Algebraic(args.K1) /\ args.K0.ext # args.K1.ext
        \/ is_Algebraic(args.K0) /\ is_Composite(args.K1)
        \/ is_Composite(args.K0) /\ is_Algebraic(args.K1))
        => result = Raise("UnificationFailed", <<args.K0, args.K1>>)

(***************************************************************************)
(* Properties: the facade.                                                 *)
(***************************************************************************)
\* C10: when the unification of the ground domains of the two operands
\* fails, Poly.unify and Poly.add carry on over the symbolic domain EX: no
\* exception leaves the call and the result is over EX.
FacadeFallsBackToEX ==
    (/\ call \in {"Poly.unify", "Poly.add"}
     /\ unify(args.f.dom, args.g.dom, args.gens).exc = "UnificationFailed")
        => result.exc = "none" /\ result.dom = EX

(***************************************************************************)
(* Properties: arithmetic of the ground domains.                           *)
(***************************************************************************)
\* C16: in an integer ring, exquo(a, b) for a nonzero b that does not divide
\* a raises ExactQuotientFailed; it does not return the floored quotient.
ExquoNeverTruncates ==
    (/\ call = "exquo"
     /\ args.K \in IntegerKinds
     /\ args.b.p # 0
     /\ pymod(args.a.p, args.b.p) # 0)
        => result = Raised("ExactQuotientFailed")

\* x and y are congruent modulo m (equal when m is zero)
Congruent(x, y, m) == IF m = 0 THEN x = y ELSE (x - y) % Abs(m) = 0

Coprime(a, b) == gcd(Abs(a.p), Abs(b.p)) = 1

FieldGcdIsOne ==
    (/\ call = "gcd"
     /\ args.K \in RationalKinds \cup RealKinds \cup {"ExpressionDomain"})
        => /\ result.type \in Native(args.K)
           /\ result.p = 1
           /\ result.q = 1

\* C20: convert with a source domain for which the target has no from_
\* method, or whose from_ method returns None, raises CoercionFailed, for
\* every pair of domains, the float and complex domains as sources included.
MissingConversionCoercionFailed ==
    (/\ call = "convert"
     /\ args.K0 # NoSource
     /\ \/ ~has_from(args.K1, args.K0)
        \/ from_(args.K1, args.a, args.K0) = NoneVal)
        => result = Raised("CoercionFailed")

(***************************************************************************)
(* Properties: dense polynomials and rational functions.                   *)
(***************************************************************************)
\* the leaf coefficients of an instance
CoeffsOf(o) ==
    IF o.cls = "DMP" THEN {o.rep.c[i] : i \in 1..Len(o.rep.c)}
    ELSE {o.num.c[i] : i \in 1..Len(o.num.c)} \cup {o.den.c[i] : i \in 1..Len(o.den.c)}

\* the call is a binary operation of two instances of one class
SameClassOp ==
    /\ call \in {"DMP.op", "DMF.op"}
    /\ args.heap[1].cls = args.heap[2].cls

\* C11: a binary operation on two dense polynomials or on two rational
\* functions of different ground domains returns an instance whose domain
\* is unify(f.dom, g.dom) and whose coefficients are all elements of it
BinaryOpsUnifyDomains ==
    (/\ SameClassOp
     /\ ~DomEq(args.heap[1].dom, args.heap[2].dom)
     /\ result.exc = "none")
        => /\ DomEq(Returned.dom, unify(args.heap[1].dom, args.heap[2].dom, None).val)
           /\ \A c \in CoeffsOf(Returned) : c.type = dtype(Returned.dom)

\* the call returned a rational function
ReturnedDMF ==
    /\ call \in {"DMF", "DMF.new", "DMF.op", "DMF.unary", "DMF.rebuild", "r"}
    /\ result.exc = "none"

\* the constructor is given a zero denominator with a numerator of its level
ZeroDenominatorGiven ==
    /\ call \in {"DMF", "DMF.new"}
    /\ Len(args.rep) = 2
    /\ args.rep[1].nest = args.rep[2].nest
    /\ args.rep[2].c = <<>>

\* the zero rational function or the zero polynomial of the level of the
\* receiver is the divisor of quo
QuoByZero ==
    /\ call = "DMF.op"
    /\ args.op = "quo"
    /\ args.heap[2].lev = args.heap[1].lev
    /\ IF args.heap[2].cls = "DMP" THEN args.heap[2].rep.c = <<>>
       ELSE args.heap[2].num.c = <<>>

InvertOfZero ==
    /\ call = "DMF.unary"
    /\ args.op = "invert"
    /\ args.heap[1].num.c = <<>>

\* C12: the denominator of a rational function returned by the
\* constructor, DMF.new or an operation is never the zero polynomial, and
\* a zero denominator given, quo by zero and invert of zero raise
\* ZeroDivisionError
DenominatorNeverZero ==
    /\ ReturnedDMF => Returned.den.c # <<>>
    /\ (ZeroDenominatorGiven \/ QuoByZero \/ InvertOfZero)
           => result.exc = "ZeroDivisionError"

\* the numerator and denominator have no common factor, the leading
\* coefficient of the denominator is positive and the denominator of zero
\* is one
Canonical(o) ==
    /\ ipolygcd(Ints(o.num.c), Ints(o.den.c)) = <<1>>
    /\ o.den.c # <<>> /\ o.den.c[1].p > 0
    /\ o.num.c = <<>> => o.den.c = dmp_one(dtype(o.dom))

\* C13: every rational function returned by the constructor, DMF.new or an
\* operation is stored in canonical form, common factors cancelled and the
\* sign of the denominator normalized
StoredCanonical == ReturnedDMF => Canonical(Returned)

\* the receiver r was built by the constructor and the call builds a
\* rational function from (r.num, r.den) or is r.cancel()
CancelsAgain ==
    /\ \/ call = "DMF.rebuild"
       \/ call = "DMF.unary" /\ args.op = "cancel"
    /\ args.ctor

\* C14: for r built by the constructor, the rational function built from
\* (r.num, r.den) and r.cancel() have the numerator and the denominator
\* of r
CancelIdempotent ==
    CancelsAgain => /\ result.exc = "none"
                    /\ Returned.num = args.heap[1].num
                    /\ Returned.den = args.heap[1].den

\* a fraction of two polynomials of degree one was built again from its
\* numerator and denominator
CancelIdempotentWitness ==
    /\ call = "DMF.rebuild"
    /\ args.ctor
    /\ Len(args.heap[1].num.c) = 2
    /\ Len(args.heap[1].den.c) = 2
    /\ result.exc = "none"
    /\ Returned.num = args.heap[1].num
    /\ Returned.den = args.heap[1].den

\* the call is an operation on instances, its operands in args.heap
OperationCalled ==
    call \in {"DMP.op", "DMF.op", "DMF.unary", "DMF.rebuild", "ANP.op", "ANP.neg",
             "ANP.pow"}

\* C15: an operation on dense polynomials, rational functions or algebraic
\* numbers leaves the representation, the level and the domain of every
\* operand as they were, and what it returns is a new instance
OperandsUnchanged ==
    OperationCalled =>
        /\ Len(result.heap) >= Len(args.heap)
        /\ \A i \in 1..Len(args.heap) : result.heap[i] = args.heap[i]
        /\ result.exc = "none" => /\ result.ret = Len(args.heap) + 1
                                  /\ Len(result.heap) = Len(args.heap) + 1

\* f.add(g), f.sub(g) or f.mul(g) of two dense polynomials returned a
\* polynomial that is not f, and f is as it was
OperandsUnchangedWitness ==
    /\ call = "DMP.op"
    /\ args.heap[2].cls = "DMP"
    /\ result.exc = "none"
    /\ Returned.rep # args.heap[1].rep
    /\ result.heap[1] = args.heap[1]
    /\ result.heap[2] = args.heap[2]

\* the operands of the call are of inconsistent levels: a DMP with a DMP
\* of another level or with an instance of another class, a numerator and
\* a denominator of different levels, a DMF with an operand of another level
InconsistentLevels ==
    \/ /\ call = "DMP.op"
       /\ args.heap[2].cls # "DMP" \/ args.heap[2].lev # args.heap[1].lev
    \/ /\ call \in {"DMF", "DMF.new"}
       /\ Len(args.rep) = 2
       /\ args.rep[1].nest # args.rep[2].nest
    \/ /\ call = "DMF.op"
       /\ args.heap[2].lev # args.heap[1].lev

\* C19: a call whose operands are of inconsistent levels raises an error
\* and returns no result
MismatchedLevelsRejected == InconsistentLevels => result.exc # "none"

(***************************************************************************)
(* Properties: algebraic numbers.                                          *)
(***************************************************************************)
\* the call returned an algebraic number
ReturnedANP ==
    /\ call \in {"ANP", "ANP.op", "ANP.neg", "ANP.pow"}
    /\ result.exc = "none"

\* C21: the representative of an algebraic number returned by the
\* constructor, neg, add, sub, mul, pow or quo is of a degree less than the
\* degree of the modulus
RepresentativeReduced ==
    ReturnedANP => Len(Returned.rep) < Len(Returned.mod)

\* f.rem(g) or f.div(g) is called for two algebraic numbers of one modulus
\* and one domain, g not zero
DivisionInField ==
    /\ call = "ANP.op"
    /\ args.op \in {"div", "rem"}
    /\ args.heap[2].cls = "ANP"
    /\ args.heap[2].mod = args.heap[1].mod
    /\ DomEq(args.heap[2].dom, args.heap[1].dom)
    /\ args.heap[2].rep # <<>>

\* C29: f.rem(g) and f.div(g) of two algebraic numbers of one modulus and
\* one domain, g not zero, complete without an error
DivisionCompletes == DivisionInField => result.exc = "none"

(***************************************************************************)
(* Properties: limit_denom.                                                *)
(***************************************************************************)
\* |p/q - n/d| <= |r/s - n/d| for positive q, s and d
NoFarther(p, q, r, s, n, d) ==
    LET absdiff(x, y) == IF x >= y THEN x - y ELSE y - x
    IN  absdiff(p * d, n * q) * s <= absdiff(r * d, n * s) * q

\* C30: limit_denom(n, d) for n, d, max_denom >= 1 returns a pair (p, q)
\* with 1 <= q <= max_denom and p/q a closest rational to n/d among those
\* of a denominator up to max_denom, and (n, d) itself when d <= max_denom
LimitDenomClosest ==
    call = "limit_denom" =>
        /\ result[1] = "ok"
        /\ result[3] \in 1..args.max_denom
        /\ \A r \in 0..(LimNum + 1), s \in 1..args.max_denom :
               NoFarther(result[2], result[3], r, s, args.n, args.d)
        /\ args.d <= args.max_denom => result = <<"ok", args.n, args.d>>

(***************************************************************************)
(* Properties: the inferred domain.                                        *)
(***************************************************************************)
\* the lists that hold the coefficients of rep in another order
Reordered(rep) ==
    {[i \in 1..Len(rep) |-> rep[p[i]]] :
        p \in {f \in [1..Len(rep) -> 1..Len(rep)] :
                  \A i, j \in 1..Len(rep) : f[i] = f[j] => i = j}}

AllOfType(rep, types) == \A i \in 1..Len(rep) : rep[i].type \in types

\* no domain below EX holds the coefficients: not the rationals, not the
\* reals, not an algebraic field when extensions are asked for, not the
\* polynomials or rational functions in y over the rationals
OnlyExpressions(rep, extension) ==
    /\ ~AllOfType(rep, {"Integer", "Rational", "Real"})
    /\ ~(extension /\ AllOfType(rep, {"Integer", "Rational", "Algebraic"}))
    /\ ~AllOfType(rep, {"Integer", "Rational", "Symbol", "Inverse"})

\* C22: without a domain argument the facade infers ZZ when all coefficients
\* are integers and no field is asked for, QQ when all are rational and one
\* is not an integer or a field is asked for, RR when one is a float and the
\* rest are rational, EX when no smaller domain holds them all, and the
\* inferred domain is the same for every order of the coefficients.
InferredDomainSmallest ==
    call = "_construct_domain" =>
        /\ result.exc = "none"
        /\ AllOfType(args.rep, {"Integer"}) /\ ~args.field => result.K = ZZ
        /\ /\ AllOfType(args.rep, {"Integer", "Rational"})
           /\ ~AllOfType(args.rep, {"Integer"}) \/ args.field
           => result.K = QQ
        /\ /\ AllOfType(args.rep, {"Integer", "Rational", "Real"})
           /\ ~AllOfType(args.rep, {"Integer", "Rational"})
           => result.K = RR
        /\ OnlyExpressions(args.rep, args.extension) => result.K = EX
        /\ \A other \in Reordered(args.rep) :
               _construct_domain(other, args.extension, args.field).K = result.K

(***************************************************************************)
(* Properties: integration.                                                *)
(***************************************************************************)
\* C23: Poly.integrate with default options succeeds for every ground domain
\* and returns a polynomial over a field: over QQ for an integer ring, over
\* the domain itself for a rational, real, algebraic or symbolic domain.
IntegratePromotesToField ==
    call = "Poly.integrate" /\ args.auto =>
        /\ result.exc = "none"
        /\ is_ZZ(args.K) => result.K = QQ
        /\ \/ args.K.kind \in RationalKinds \cup RealKinds
           \/ is_Algebraic(args.K)
           \/ is_EX(args.K)
           => result.K = args.K
        /\ has_Field(result.K) \/ result.K.kind \in RealKinds

(***************************************************************************)
(* Properties: shared state.                                               *)
(***************************************************************************)
\* the statement that t executes next reads the entry of f in the cache
ReadsEntry(t, f) == threads[t].pc \in {"test", "hit"} /\ threads[t].f = f

\* the statement that t executes next writes the entry of f in the cache
WritesEntry(t, f) == threads[t].pc = "store" /\ threads[t].f = f

\* C24: no two concurrent calls are about to access the same entry of a
\* cache shared between threads, one of them writing it, unless a lock
\* orders them; _exact_roots takes no lock, so no two threads may be at
\* such statements together.
CacheAccessSynchronised ==
    \A t \in Threads, f \in RootPolys :
        \A u \in Threads \ {t} :
            ~(WritesEntry(t, f) /\ (ReadsEntry(u, f) \/ WritesEntry(u, f)))

(***************************************************************************)
(* Properties: Max and Min.                                                *)
(***************************************************************************)
\* v is known to be smaller than w for Max, and greater than w for Min: the
\* comparison is decided against v
KnownBelow(cls, v, w) ==
    /\ v # w
    /\ IF cls = "Min" THEN lt(w, v) = "True" \/ lt(v, w) = "False"
       ELSE gt(w, v) = "True" \/ gt(v, w) = "False"

\* the arguments that are not known to be below another argument
Extremal(cls, values) ==
    {v \in SeqSet(values) : \A w \in SeqSet(values) : ~KnownBelow(cls, v, w)}

MaxMinReturned == call \in {"Max", "Min"} /\ args.values # <<>>

\* the arguments that every other argument is known to be below
Greatest(cls, values) ==
    {g \in SeqSet(values) : \A w \in SeqSet(values) \ {g} : KnownBelow(cls, w, g)}

\* C25: for a non-empty argument list Max returns the argument that is known
\* to be greater than all the others when there is one, and otherwise the
\* unevaluated Max of exactly the distinct arguments that are not known to
\* be smaller than another argument, for every order and repetition of the
\* arguments; Min is the mirror image.
MaxKeepsExtremal ==
    MaxMinReturned =>
        /\ result.exc = "none"
        /\ Greatest(call, args.values) # {}
               => result.evaluated /\ SeqSet(result.args) = Greatest(call, args.values)
        /\ Greatest(call, args.values) = {}
               => /\ ~result.evaluated
                  /\ SeqSet(result.args) = Extremal(call, args.values)
                  /\ Len(result.args) = Cardinality(Extremal(call, args.values))

\* a call of three arguments, one of them repeated, that stays unevaluated
MaxKeepsExtremalWitness ==
    /\ MaxMinReturned
    /\ Len(args.values) = MaxArgs
    /\ Cardinality(SeqSet(args.values)) < MaxArgs
    /\ ~result.evaluated

(***************************************************************************)
(* Properties: And and Or.                                                 *)
(***************************************************************************)
Given(b) == \E i \in 1..Len(args.values) : args.values[i] = Bool(b)

AllGiven(b) ==
    /\ args.values # <<>>
    /\ \A i \in 1..Len(args.values) : args.values[i] = Bool(b)

\* C26: And is False when one of its arguments is the bool False and True
\* when all of them are True; Or is True when one of its arguments is True
\* and False when all of them are False, wherever that argument stands and
\* whatever the other arguments are.
AndOrShortCircuit ==
    /\ call = "And" =>
           /\ Given(FALSE) => result = EvalBool(FALSE)
           /\ AllGiven(TRUE) => result = EvalBool(TRUE)
    /\ call = "Or" =>
           /\ Given(TRUE) => result = EvalBool(TRUE)
           /\ AllGiven(FALSE) => result = EvalBool(FALSE)

(***************************************************************************)
(* Properties: the union of relationals.                                   *)
(***************************************************************************)
\* the values that the symbols x and y take
Valuations == [{"x", "y"} -> 0..3]

ValueOf(side, v) == IF is_Number(side) THEN side.c ELSE v[side.sym]

\* the relational r holds under the valuation v
Holds(r, v) ==
    CASE r.cls = "Equality" -> ValueOf(r.lhs, v) = ValueOf(r.rhs, v)
      [] r.cls = "Unequality" -> ValueOf(r.lhs, v) # ValueOf(r.rhs, v)
      [] r.cls = "StrictInequality" -> ValueOf(r.lhs, v) < ValueOf(r.rhs, v)
      [] r.cls = "Inequality" -> ValueOf(r.lhs, v) <= ValueOf(r.rhs, v)

\* what _union returned holds under v
UnionHolds(u, v) == IF u.kind = "bool" THEN u.b ELSE Holds(u.rel, v)

UnionReturned == call = "union" /\ result.kind \in {"bool", "rel"}

\* C27: a union that returns a result is equivalent to the disjunction of
\* the two relations for all values of their sides, and the union taken in
\* the other order of the operands is equivalent to it.
UnionIsDisjunction ==
    UnionReturned =>
        /\ \A v \in Valuations :
               UnionHolds(result, v) <=> (Holds(args.self, v) \/ Holds(args.other, v))
        /\ args.other.cls \in {"Inequality", "Unequality"} =>
               LET back == Relational_union(args.other, args.self)
               IN  back.kind \in {"bool", "rel"} =>
                       \A v \in Valuations : UnionHolds(back, v) <=> UnionHolds(result, v)

(***************************************************************************)
(* Properties: the caller's container.                                     *)
(***************************************************************************)
\* C28: constructing a Poly from a dict or a list leaves the caller's
\* container as it was, with or without a domain argument.
ContainerUnchanged == call = "Poly" => result.container = args.container

====
